---- MODULE Spec2Model ----
(***************************************************************************)
(* A model of PaywallFlower's adaptive bypass engine:                      *)
(*   BypassMethod          (services/bypassMethods/bypassMethod.js)        *)
(*   BypassMethodRegistry  (services/bypassMethodRegistry.js)              *)
(*   BypassMetrics         (services/bypassMetrics.js)                     *)
(*   SmartBypassService    (services/smartBypassService.js)                *)
(*                                                                         *)
(* Time is Date.now() in milliseconds.  Timestamps that the code only      *)
(* stores and logs (lastAttempt, lastSuccess, lastCheck, lastUpdated,      *)
(* lastError, the timestamp of an attempt record) are not part of the      *)
(* state: nothing in the modelled code reads them.  Percentages that the   *)
(* code keeps as floating-point numbers are kept as exact fractions        *)
(* <<numerator, denominator>> and compared by cross-multiplication.        *)
(***************************************************************************)
EXTENDS Integers, Sequences, FiniteSets, TLC

(***************************************************************************)
(* Bounds of the model.                                                    *)
(***************************************************************************)
\* bypassPaywall calls started and clock ticks made, orchestration specification
MaxCalls == 2
MaxTicks == 1
\* bypassPaywall calls started and clock ticks made, rate-limit specification
MaxRateCalls == 5
MaxRateTicks == 3
\* bypassPaywall calls started, rolling-window specification
MaxWindowCalls == 7
\* clock ticks per minute bucket
TicksPerMinute == 2
\* health checks run
MaxHealthChecks == 4
\* attempts made in the strategy-learning specification
MaxStrategyAttempts == 10
\* SpecHistory: attempts recorded in all
MaxHistoryAttempts == 6
\* SpecLearn: attempts recorded in all
MaxLearnAttempts == 4
\* SpecMetrics: attempts recorded in all, and those among them that are not a
\* failure of method A on x.com
MaxRecorded == 22
MaxVaried == 2
\* SpecBlacklist: attempts of one method on one domain, and the successes
\* among them
MaxRunAttempts == 30
MaxRunSuccesses == 3
\* SpecTimer: objects registered under one name, timers installed, runs of
\* performHealthChecks started
MaxGenerations == 2
MaxIntervals == 2
MaxRuns == 1
\* SpecLife: runs of autoRegisterMethods, bypassPaywall calls
MaxRegistrations == 3
MaxLifeCalls == 2
\* SpecBatch: URLs in one processUrls call
MaxBatchUrls == 3
\* SpecRing: attempts recorded, three more than the ring buffer holds
MaxRingAttempts == 1003

(***************************************************************************)
(* Program constants.                                                      *)
(***************************************************************************)
MinuteMs == 60000
RateLimitMax == 3
RateLimitKeepMinutes == 5
RecentWindow == 20
MaxRecentAttempts == 1000
BlacklistMinAttempts == 10
BlacklistMaxFailureRate == 90
BestMinAttempts == 3
DefaultMinAttempts == 5
GoodRecentRate == 50
RecentGap == 10
UnhealthyThreshold == 3
DefaultPriority == 5
MinPriority == 1
MaxPriority == 10
\* Infinity, the initial minResponseTime: a value below every response time
Infinity == -1

TickMs == MinuteMs \div TicksPerMinute

(***************************************************************************)
(* Generic helpers.                                                        *)
(***************************************************************************)
Range(s) == {s[i] : i \in 1..Len(s)}

\* Array.prototype.includes
Includes(s, x) == \E i \in 1..Len(s) : s[i] = x

\* Array.prototype.indexOf, 0-based, -1 when absent
IndexOf(s, x) ==
  IF Includes(s, x) THEN (CHOOSE i \in 1..Len(s) : s[i] = x /\ \A j \in 1..(i-1) : s[j] # x) - 1
  ELSE 0 - 1

\* Array.prototype.splice(index, 1) with a 0-based index
RemoveAt(s, index) == [i \in 1..(Len(s) - 1) |-> IF i <= index THEN s[i] ELSE s[i + 1]]

\* A JavaScript Map as the sequence of its entries in insertion order.
MapHas(map, k) == \E i \in 1..Len(map) : map[i].key = k
MapGet(map, k) == map[CHOOSE i \in 1..Len(map) : map[i].key = k].val
MapSet(map, k, v) ==
  IF MapHas(map, k)
  THEN [i \in 1..Len(map) |-> IF map[i].key = k THEN [key |-> k, val |-> v] ELSE map[i]]
  ELSE Append(map, [key |-> k, val |-> v])
MapKeys(map) == [i \in 1..Len(map) |-> map[i].key]

(***************************************************************************)
(* utils/urlExtractor.js.  A URL is its parts: host, whether the host      *)
(* carries the www. prefix, path, whether the query holds a tracking       *)
(* parameter, whether it has a fragment.                                   *)
(***************************************************************************)
MkUrl(www, host, path, tracking, fragment) ==
  [www |-> www, host |-> host, path |-> path, tracking |-> tracking, fragment |-> fragment]

\* new URL(url) gives an origin-only URL the path "/"; the tracking parameters
\* are deleted and the fragment is removed
normalizeUrl(url) ==
  [url EXCEPT !.path = IF url.path = "" THEN "/" ELSE url.path,
              !.tracking = FALSE,
              !.fragment = FALSE]

\* hostname.replace(/^www\./, '')
extractDomain(url) == url.host

(***************************************************************************)
(* BypassMetrics.                                                          *)
(***************************************************************************)
createEmptyMetrics ==
  [totalAttempts |-> 0,
   successfulAttempts |-> 0,
   failedAttempts |-> 0,
   totalResponseTime |-> 0,
   averageResponseTime |-> <<0, 1>>,
   minResponseTime |-> Infinity,
   maxResponseTime |-> 0,
   consecutiveFailures |-> 0,
   recentSuccessRate |-> <<0, 1>>,
   recentAttempts |-> <<>>]

MathMin(a, b) == IF a = Infinity THEN b ELSE IF b < a THEN b ELSE a
MathMax(a, b) == IF b > a THEN b ELSE a

\* updateMetrics computing the recent success rate before the oldest entry
\* leaves the window
updateMetricsRateBeforeShift(m, success, responseTime) ==
  LET pushed == Append(m.recentAttempts, [success |-> success, responseTime |-> responseTime])
      window == IF Len(pushed) > RecentWindow THEN Tail(pushed) ELSE pushed
      recentSuccesses == Cardinality({i \in 1..Len(pushed) : pushed[i].success})
  IN [totalAttempts |-> m.totalAttempts + 1,
      successfulAttempts |-> IF success THEN m.successfulAttempts + 1 ELSE m.successfulAttempts,
      failedAttempts |-> IF success THEN m.failedAttempts ELSE m.failedAttempts + 1,
      consecutiveFailures |-> IF success THEN 0 ELSE m.consecutiveFailures + 1,
      totalResponseTime |-> m.totalResponseTime + responseTime,
      averageResponseTime |-> <<m.totalResponseTime + responseTime, m.totalAttempts + 1>>,
      minResponseTime |-> MathMin(m.minResponseTime, responseTime),
      maxResponseTime |-> MathMax(m.maxResponseTime, responseTime),
      recentAttempts |-> window,
      recentSuccessRate |-> <<recentSuccesses * 100, Len(pushed)>>]

\* updateMetrics counting in consecutiveFailures the failures since the last
\* but one success
updateMetricsLateReset(m, success, responseTime) ==
  LET pushed == Append(m.recentAttempts, [success |-> success, responseTime |-> responseTime])
      window == IF Len(pushed) > RecentWindow THEN Tail(pushed) ELSE pushed
      recentSuccesses == Cardinality({i \in 1..Len(window) : window[i].success})
  IN [totalAttempts |-> m.totalAttempts + 1,
      successfulAttempts |-> IF success THEN m.successfulAttempts + 1 ELSE m.successfulAttempts,
      failedAttempts |-> IF success THEN m.failedAttempts ELSE m.failedAttempts + 1,
      consecutiveFailures |-> IF success /\ m.successfulAttempts > 0 THEN 0
                              ELSE IF success THEN m.consecutiveFailures
                              ELSE m.consecutiveFailures + 1,
      totalResponseTime |-> m.totalResponseTime + responseTime,
      averageResponseTime |-> <<m.totalResponseTime + responseTime, m.totalAttempts + 1>>,
      minResponseTime |-> MathMin(m.minResponseTime, responseTime),
      maxResponseTime |-> MathMax(m.maxResponseTime, responseTime),
      recentAttempts |-> window,
      recentSuccessRate |-> <<recentSuccesses * 100, Len(window)>>]

updateMetrics(m, success, responseTime) ==
  LET pushed == Append(m.recentAttempts, [success |-> success, responseTime |-> responseTime])
      window == IF Len(pushed) > RecentWindow THEN Tail(pushed) ELSE pushed
      recentSuccesses == Cardinality({i \in 1..Len(window) : window[i].success})
  IN [totalAttempts |-> m.totalAttempts + 1,
      successfulAttempts |-> IF success THEN m.successfulAttempts + 1 ELSE m.successfulAttempts,
      failedAttempts |-> IF success THEN m.failedAttempts ELSE m.failedAttempts + 1,
      consecutiveFailures |-> IF success THEN 0 ELSE m.consecutiveFailures + 1,
      totalResponseTime |-> m.totalResponseTime + responseTime,
      averageResponseTime |-> <<m.totalResponseTime + responseTime, m.totalAttempts + 1>>,
      minResponseTime |-> MathMin(m.minResponseTime, responseTime),
      maxResponseTime |-> MathMax(m.maxResponseTime, responseTime),
      recentAttempts |-> window,
      recentSuccessRate |-> <<recentSuccesses * 100, Len(window)>>]

\* recordAttempt counting a failure in the domain aggregate only
recordAttemptFailureLocal(store, url, method, success, responseTime) ==
  LET domain == extractDomain(url)
      domainMetrics == store.metrics[domain]
      methodMetrics == IF MapHas(domainMetrics, method) THEN MapGet(domainMetrics, method)
                       ELSE createEmptyMetrics
      globalMethodMetrics == IF MapHas(store.globalMetrics, method)
                             THEN MapGet(store.globalMetrics, method)
                             ELSE createEmptyMetrics
      attempt == [url |-> url, domain |-> domain, method |-> method,
                  success |-> success, responseTime |-> responseTime]
      pushed == Append(store.recentAttempts, attempt)
  IN [metrics |-> [store.metrics EXCEPT ![domain] =
                     MapSet(domainMetrics, method,
                            updateMetrics(methodMetrics, success, responseTime))],
      globalMetrics |-> IF success
                        THEN MapSet(store.globalMetrics, method,
                                    updateMetrics(globalMethodMetrics, success, responseTime))
                        ELSE MapSet(store.globalMetrics, method, globalMethodMetrics),
      recentAttempts |-> IF Len(pushed) > MaxRecentAttempts THEN Tail(pushed) ELSE pushed]

\* recordAttempt dropping the newest record of a full ring buffer
recordAttemptKeepsOldest(store, url, method, success, responseTime) ==
  LET domain == extractDomain(url)
      domainMetrics == store.metrics[domain]
      methodMetrics == IF MapHas(domainMetrics, method) THEN MapGet(domainMetrics, method)
                       ELSE createEmptyMetrics
      globalMethodMetrics == IF MapHas(store.globalMetrics, method)
                             THEN MapGet(store.globalMetrics, method)
                             ELSE createEmptyMetrics
      attempt == [url |-> url, domain |-> domain, method |-> method,
                  success |-> success, responseTime |-> responseTime]
      pushed == Append(store.recentAttempts, attempt)
  IN [metrics |-> [store.metrics EXCEPT ![domain] =
                     MapSet(domainMetrics, method,
                            updateMetrics(methodMetrics, success, responseTime))],
      globalMetrics |-> MapSet(store.globalMetrics, method,
                               updateMetrics(globalMethodMetrics, success, responseTime)),
      recentAttempts |-> IF Len(pushed) > MaxRecentAttempts THEN SubSeq(pushed, 1, MaxRecentAttempts)
                         ELSE pushed]

\* The three stores recordAttempt writes: metrics (domain -> method -> aggregate),
\* globalMetrics (method -> aggregate) and the recentAttempts ring buffer.
recordAttempt(store, url, method, success, responseTime) ==
  LET domain == extractDomain(url)
      domainMetrics == store.metrics[domain]
      methodMetrics == IF MapHas(domainMetrics, method) THEN MapGet(domainMetrics, method)
                       ELSE createEmptyMetrics
      globalMethodMetrics == IF MapHas(store.globalMetrics, method)
                             THEN MapGet(store.globalMetrics, method)
                             ELSE createEmptyMetrics
      attempt == [url |-> url, domain |-> domain, method |-> method,
                  success |-> success, responseTime |-> responseTime]
      pushed == Append(store.recentAttempts, attempt)
  IN [metrics |-> [store.metrics EXCEPT ![domain] =
                     MapSet(domainMetrics, method,
                            updateMetrics(methodMetrics, success, responseTime))],
      globalMetrics |-> MapSet(store.globalMetrics, method,
                               updateMetrics(globalMethodMetrics, success, responseTime)),
      recentAttempts |-> IF Len(pushed) > MaxRecentAttempts THEN Tail(pushed) ELSE pushed]

\* The blacklisting test without the minimum of attempts
ShouldBlacklistAtOnce(m, minAttempts, maxFailureRate) ==
  /\ m.failedAttempts * 100 >= maxFailureRate * m.totalAttempts
  /\ 100 * m.recentSuccessRate[2] - m.recentSuccessRate[1]
       >= maxFailureRate * m.recentSuccessRate[2]

\* The blacklisting test on the lifetime failure rate alone
ShouldBlacklistLifetimeOnly(m, minAttempts, maxFailureRate) ==
  /\ m.totalAttempts >= minAttempts
  /\ m.failedAttempts * 100 >= maxFailureRate * m.totalAttempts

\* failureRate >= maxFailureRate && recentFailureRate >= maxFailureRate, with
\* failureRate = failedAttempts / totalAttempts * 100 and
\* recentFailureRate = 100 - recentSuccessRate
ShouldBlacklist(m, minAttempts, maxFailureRate) ==
  /\ m.totalAttempts >= minAttempts
  /\ m.failedAttempts * 100 >= maxFailureRate * m.totalAttempts
  /\ 100 * m.recentSuccessRate[2] - m.recentSuccessRate[1]
       >= maxFailureRate * m.recentSuccessRate[2]

getMethodsToBlacklist(store, domain, minAttempts, maxFailureRate) ==
  LET domainMetrics == store.metrics[domain]
      Candidate(e) == ShouldBlacklist(e.val, minAttempts, maxFailureRate)
  IN MapKeys(SelectSeq(domainMetrics, Candidate))


\* Array.prototype.sort(compare) as a stable insertion sort: each element is put
\* after the last already-placed element it does not have to precede
\* (compare(placed, x) <= 0).
InsertSorted(sorted, x, compare) ==
  LET keepBefore == {j \in 0..Len(sorted) : j = 0 \/ compare[sorted[j], x] <= 0}
      pos == CHOOSE j \in keepBefore : \A k \in keepBefore : k <= j
  IN SubSeq(sorted, 1, pos) \o <<x>> \o SubSeq(sorted, pos + 1, Len(sorted))

SortWith(s, compare) ==
  LET placed[i \in 0..Len(s)] ==
        IF i = 0 THEN <<>> ELSE InsertSorted(placed[i - 1], s[i], compare)
  IN placed[Len(s)]

\* The entries getBestMethodsForDomain collects: method, successRate and
\* recentSuccessRate (fractions), averageResponseTime, of every method with at
\* least minAttempts attempts for the domain, in Map order.
BestEntry(e) ==
  [method |-> e.key,
   successRate |-> <<e.val.successfulAttempts * 100, e.val.totalAttempts>>,
   recentSuccessRate |-> e.val.recentSuccessRate,
   averageResponseTime |-> e.val.averageResponseTime,
   totalAttempts |-> e.val.totalAttempts,
   consecutiveFailures |-> e.val.consecutiveFailures]

\* Fractions <<n, d>> with d > 0
FracDiff(a, b) == <<a[1] * b[2] - b[1] * a[2], a[2] * b[2]>>
FracAbsGreater(a, b, gap) ==
  LET d == FracDiff(a, b)
      absNum == IF d[1] < 0 THEN 0 - d[1] ELSE d[1]
  IN absNum > gap * d[2]
FracGreater(a, k) == a[1] > k * a[2]

\* The comparator of getBestMethodsForDomain; only its sign is used
BestCompare(a, b) ==
  IF FracAbsGreater(a.recentSuccessRate, b.recentSuccessRate, 10)
  THEN FracDiff(b.recentSuccessRate, a.recentSuccessRate)[1]
  ELSE IF FracAbsGreater(a.successRate, b.successRate, 5)
  THEN FracDiff(b.successRate, a.successRate)[1]
  ELSE FracDiff(a.averageResponseTime, b.averageResponseTime)[1]

getBestMethodsForDomain(store, domain, minAttempts) ==
  LET domainMetrics == store.metrics[domain]
      Enough(e) == e.val.totalAttempts >= minAttempts
      collected == SelectSeq(domainMetrics, Enough)
      entries == [i \in 1..Len(collected) |-> BestEntry(collected[i])]
  IN SortWith(entries, [a \in Range(entries), b \in Range(entries) |-> BestCompare(a, b)])

(***************************************************************************)
(* State.                                                                  *)
(***************************************************************************)
VARIABLES
  now,              \* Date.now()
  methods,          \* BypassMethodRegistry.methods: the names, in Map order
  config,           \* BypassMethod.config of each method: enabled, priority, testUrl
  healthStatus,     \* BypassMethod.healthStatus: healthy, consecutiveFailures
  methodMetrics,    \* BypassMethod.metrics: totalAttempts, successfulAttempts
  metrics,          \* BypassMetrics.metrics: domain -> method -> aggregate
  globalMetrics,    \* BypassMetrics.globalMetrics: method -> aggregate
  recentAttempts,   \* BypassMetrics.recentAttempts: the ring buffer
  requestCounts,    \* SmartBypassService.requestCounts: <<url, minute>> -> count
  domainStrategies, \* SmartBypassService.domainStrategies: domain -> strategy
  calls,            \* the bypassPaywall calls: position, locals, result
  started,          \* number of bypassPaywall calls started
  ticks,            \* number of clock ticks made
  checks,           \* number of health checks run
  passLog,          \* history: <<url, time>> of each call that passed checkRateLimit
  failedChecks,     \* history: each method's run of failed default health checks
  selected,         \* the last list a selection operation returned
  generation,       \* how many objects have been registered under each name
  healthCheckInterval, \* BypassMethodRegistry.healthCheckInterval: a timer handle, 0 for null
  intervals,        \* the runtime's interval timers by handle: TRUE while not cleared
  runs,             \* the performHealthChecks runs started: snapshot, pending checks, results
  report,           \* what the performHealthChecks run that returned last returned
  cleanupCalls,     \* history: the number of cleanup() calls made on each name's methods
  cleaning,         \* the cleanup() that is awaiting the methods' cleanups: none, registry, service
  raised,           \* the error the last registry or service call threw, "" if it returned
  cleanupsInARow,   \* history: how many of the last calls made were cleanup(), up to 2
  initialized,      \* SmartBypassService.initialized
  registrations,    \* history: the number of autoRegisterMethods runs
  batch,            \* the processUrls call: its urls, position, results
  attemptLog,       \* history: every record RecordNext handed to recordAttempt
  averageResponseTime, \* BypassMethod.metrics.averageResponseTime as a fraction <<num, den>>
  recordedTimes     \* history: the response times handed to each method's recordMetrics

clockVars == <<now, ticks, checks>>
registryVars == <<methods, config, healthStatus, methodMetrics>>
storeVars == <<metrics, globalMetrics, recentAttempts>>
serviceVars == <<requestCounts, domainStrategies>>
callVars == <<calls, started, passLog, failedChecks>>
timerVars == <<healthCheckInterval, intervals, runs, report>>
lifeVars == <<generation, healthCheckInterval, intervals, runs, report, cleanupCalls, cleaning,
              raised, cleanupsInARow, initialized, registrations, batch, attemptLog,
                 averageResponseTime, recordedTimes>>
vars == <<now, ticks, checks, methods, config, healthStatus, methodMetrics, metrics, globalMetrics,
          recentAttempts, requestCounts, domainStrategies, calls, started, passLog, failedChecks,
          selected, generation, healthCheckInterval, intervals, runs, report, cleanupCalls,
          cleaning, raised, cleanupsInARow, initialized, registrations, batch, attemptLog,
                 averageResponseTime, recordedTimes>>

Store == [metrics |-> metrics, globalMetrics |-> globalMetrics, recentAttempts |-> recentAttempts]

(***************************************************************************)
(* The universe of the model.                                              *)
(***************************************************************************)
MethodNames == {"A", "B", "C", "D", "E"}
Domains == {"x.com", "y.com"}
Outcomes == {"ok", "fail", "throw"}
CallIds == {1, 2}

(***************************************************************************)
(* BypassMethod.                                                           *)
(***************************************************************************)
NewConfig(priority, testUrl) == [enabled |-> TRUE, priority |-> priority, testUrl |-> testUrl]
NewHealthStatus == [healthy |-> TRUE, consecutiveFailures |-> 0]
NewMethodMetrics == [totalAttempts |-> 0, successfulAttempts |-> 0]

\* isAvailable looking at the health state only
isAvailableIgnoresEnabled(m) == healthStatus[m].healthy

isAvailable(m) == config[m].enabled /\ healthStatus[m].healthy

\* recordMetrics: the method's own counters; healthStatus is not touched
recordMetrics(mm, success) ==
  [totalAttempts |-> mm.totalAttempts + 1,
   successfulAttempts |-> IF success THEN mm.successfulAttempts + 1 ELSE mm.successfulAttempts]

\* healthCheck tolerating a third consecutive failure
healthCheckTolerant(hs, outcome) ==
  LET failures == IF outcome = "ok" THEN 0 ELSE hs.consecutiveFailures + 1
  IN [healthy |-> failures <= UnhealthyThreshold, consecutiveFailures |-> failures]

\* The healthStatus the default healthCheck leaves, its attempt on the test URL
\* having ended in outcome
healthCheck(hs, outcome) ==
  LET failures == IF outcome = "ok" THEN 0 ELSE hs.consecutiveFailures + 1
  IN [healthy |-> failures < UnhealthyThreshold, consecutiveFailures |-> failures]

\* What the default healthCheck returns as `healthy`
healthCheckResult(m, outcome) ==
  IF ~config[m].testUrl THEN TRUE
  ELSE IF outcome = "throw" THEN FALSE
  ELSE healthCheck(healthStatus[m], outcome).healthy

(***************************************************************************)
(* BypassMethodRegistry.                                                   *)
(***************************************************************************)
getMethod(name) == IF Includes(methods, name) THEN name ELSE "null"
getAllMethods == methods
\* getAvailableMethods keeping every enabled method, healthy or not
getAvailableMethodsAnyHealth == SelectSeq(getAllMethods, LAMBDA m : config[m].enabled)

getAvailableMethods == SelectSeq(getAllMethods, isAvailable)

\* (a, b) => b.config.priority - a.config.priority
ByPriority(a, b) == config[b].priority - config[a].priority

getMethodsByPriority(onlyAvailable) ==
  SortWith(IF onlyAvailable THEN getAvailableMethods ELSE getAllMethods,
           [a \in Range(methods), b \in Range(methods) |-> ByPriority(a, b)])


(***************************************************************************)
(* SmartBypassService.                                                     *)
(***************************************************************************)
NoStrategy ==
  [exists |-> FALSE, preferredMethods |-> <<>>, blacklistedMethods |-> <<>>,
   totalAttempts |-> 0, successfulAttempts |-> 0]

NewStrategy == [NoStrategy EXCEPT !.exists = TRUE]

\* The first branch appending blacklisted methods among the remaining ones
PreferredOrderKeepsBlacklisted(domainStrategy) ==
  LET Usable(name) ==
        /\ getMethod(name) # "null"
        /\ isAvailable(name)
        /\ ~Includes(domainStrategy.blacklistedMethods, name)
      Remaining(name) == ~Includes(domainStrategy.preferredMethods, name)
  IN SelectSeq(domainStrategy.preferredMethods, Usable)
       \o SortWith(SelectSeq(getAvailableMethods, Remaining),
                   [a \in Range(methods), b \in Range(methods) |-> ByPriority(a, b)])

\* The first branch of getMethodsForDomain: the strategy's preferred methods
\* that are registered, available and not blacklisted, then the other
\* available methods that are neither preferred nor blacklisted, by priority
PreferredOrder(domainStrategy) ==
  LET Usable(name) ==
        /\ getMethod(name) # "null"
        /\ isAvailable(name)
        /\ ~Includes(domainStrategy.blacklistedMethods, name)
      Remaining(name) ==
        /\ ~Includes(domainStrategy.preferredMethods, name)
        /\ ~Includes(domainStrategy.blacklistedMethods, name)
  IN SelectSeq(domainStrategy.preferredMethods, Usable)
       \o SortWith(SelectSeq(getAvailableMethods, Remaining),
                   [a \in Range(methods), b \in Range(methods) |-> ByPriority(a, b)])

\* The second branch ordering the good methods by the comparator of
\* getBestMethodsForDomain
HistoryOrderThreeTier(bestMethods) ==
  LET Found(name) == bestMethods[CHOOSE i \in 1..Len(bestMethods) :
                                   /\ bestMethods[i].method = name
                                   /\ \A j \in 1..(i - 1) : bestMethods[j].method # name]
      Good(name) ==
        /\ \E i \in 1..Len(bestMethods) : bestMethods[i].method = name
        /\ FracGreater(Found(name).recentSuccessRate, GoodRecentRate)
      NotGood(name) == ~Good(name)
      good == SelectSeq(getAvailableMethods, Good)
  IN SortWith(good, [a \in Range(good), b \in Range(good) |-> BestCompare(Found(a), Found(b))])
       \o SortWith(SelectSeq(getAvailableMethods, NotGood),
                   [a \in Range(methods), b \in Range(methods) |-> ByPriority(a, b)])

\* The second branch: the available methods with a recent success rate above
\* 50 for the domain, by that rate (gap above 10) and then by priority, then
\* the other available methods by priority
HistoryOrder(bestMethods) ==
  LET Found(name) == bestMethods[CHOOSE i \in 1..Len(bestMethods) :
                                   /\ bestMethods[i].method = name
                                   /\ \A j \in 1..(i - 1) : bestMethods[j].method # name]
      Good(name) ==
        /\ \E i \in 1..Len(bestMethods) : bestMethods[i].method = name
        /\ FracGreater(Found(name).recentSuccessRate, GoodRecentRate)
      NotGood(name) == ~Good(name)
      BySuccess(a, b) ==
        IF FracAbsGreater(Found(a).recentSuccessRate, Found(b).recentSuccessRate, RecentGap)
        THEN FracDiff(Found(b).recentSuccessRate, Found(a).recentSuccessRate)[1]
        ELSE config[b].priority - config[a].priority
      good == SelectSeq(getAvailableMethods, Good)
  IN SortWith(good, [a \in Range(good), b \in Range(good) |-> BySuccess(a, b)])
       \o SortWith(SelectSeq(getAvailableMethods, NotGood),
                   [a \in Range(methods), b \in Range(methods) |-> ByPriority(a, b)])

\* getMethodsForDomain taking a single recorded attempt for history
getMethodsForDomainAnyHistory(domain) ==
  LET domainStrategy == domainStrategies[domain]
      bestMethods == getBestMethodsForDomain(Store, domain, 1)
  IN IF domainStrategy.exists /\ Len(domainStrategy.preferredMethods) > 0
     THEN PreferredOrder(domainStrategy)
     ELSE IF Len(bestMethods) > 0
     THEN HistoryOrder(bestMethods)
     ELSE getMethodsByPriority(TRUE)

getMethodsForDomain(domain) ==
  LET domainStrategy == domainStrategies[domain]
      bestMethods == getBestMethodsForDomain(Store, domain, BestMinAttempts)
  IN IF domainStrategy.exists /\ Len(domainStrategy.preferredMethods) > 0
     THEN PreferredOrder(domainStrategy)
     ELSE IF Len(bestMethods) > 0
     THEN HistoryOrder(bestMethods)
     ELSE getMethodsByPriority(TRUE)

\* The success branch putting the method in front without taking it out of
\* its old place
PreferMethodKeepsOldPlace(strategy, methodName) ==
  LET blacklistIndex == IndexOf(strategy.blacklistedMethods, methodName)
  IN [strategy EXCEPT
        !.successfulAttempts = @ + 1,
        !.preferredMethods = IF Len(@) > 0 /\ @[1] = methodName THEN @ ELSE <<methodName>> \o @,
        !.blacklistedMethods = IF blacklistIndex > 0 - 1 THEN RemoveAt(@, blacklistIndex) ELSE @]

\* The success branch putting the method in front whatever the list holds
PreferMethodUnshifts(strategy, methodName) ==
  LET blacklistIndex == IndexOf(strategy.blacklistedMethods, methodName)
  IN [strategy EXCEPT
        !.successfulAttempts = @ + 1,
        !.preferredMethods = <<methodName>> \o @,
        !.blacklistedMethods = IF blacklistIndex > 0 - 1 THEN RemoveAt(@, blacklistIndex) ELSE @]

\* The success branch of updateDomainStrategy: the method moves to the front of
\* preferredMethods and leaves blacklistedMethods
PreferMethod(strategy, methodName) ==
  LET index == IndexOf(strategy.preferredMethods, methodName)
      blacklistIndex == IndexOf(strategy.blacklistedMethods, methodName)
  IN [strategy EXCEPT
        !.successfulAttempts = @ + 1,
        !.preferredMethods =
           IF index > 0 THEN <<methodName>> \o RemoveAt(@, index)
           ELSE IF index = 0 - 1 THEN <<methodName>> \o @
           ELSE @,
        !.blacklistedMethods = IF blacklistIndex > 0 - 1 THEN RemoveAt(@, blacklistIndex) ELSE @]

\* The closing loop of updateDomainStrategy: every method to blacklist that
\* blacklistedMethods does not hold yet is pushed onto it
MergeBlacklist(strategy, methodsToBlacklist) ==
  LET merged[i \in 0..Len(methodsToBlacklist)] ==
        IF i = 0 THEN strategy.blacklistedMethods
        ELSE IF Includes(merged[i - 1], methodsToBlacklist[i]) THEN merged[i - 1]
        ELSE Append(merged[i - 1], methodsToBlacklist[i])
  IN [strategy EXCEPT !.blacklistedMethods = merged[Len(methodsToBlacklist)]]

\* updateDomainStrategy(domain, methodName, success, responseTime) on the
\* strategy of the domain, with the metrics store as it is at the call
updateDomainStrategy(strategy, store, domain, methodName, success) ==
  LET created == IF strategy.exists THEN strategy ELSE NewStrategy
      counted == [created EXCEPT !.totalAttempts = @ + 1]
      learned == IF success THEN PreferMethod(counted, methodName) ELSE counted
  IN MergeBlacklist(learned,
       getMethodsToBlacklist(store, domain, BlacklistMinAttempts, BlacklistMaxFailureRate))

\* checkRateLimit letting a request through when the counter has reached the maximum
checkRateLimitOffByOne(counts, url, t) ==
  LET minute == t \div MinuteMs
      key == <<url, minute>>
      count == IF key \in DOMAIN counts THEN counts[key] ELSE 0
      counted == [k \in (DOMAIN counts) \cup {key} |-> IF k = key THEN count + 1 ELSE counts[k]]
      kept == {k \in DOMAIN counted : ~(minute - k[2] > RateLimitKeepMinutes)}
  IN IF count > RateLimitMax
     THEN [allowed |-> FALSE, requestCounts |-> counts]
     ELSE [allowed |-> TRUE, requestCounts |-> [k \in kept |-> counted[k]]]

\* checkRateLimit counting the request before it looks at the limit
checkRateLimitCountsRejected(counts, url, t) ==
  LET minute == t \div MinuteMs
      key == <<url, minute>>
      count == IF key \in DOMAIN counts THEN counts[key] ELSE 0
      counted == [k \in (DOMAIN counts) \cup {key} |-> IF k = key THEN count + 1 ELSE counts[k]]
      kept == {k \in DOMAIN counted : ~(minute - k[2] > RateLimitKeepMinutes)}
  IN IF count >= RateLimitMax
     THEN [allowed |-> FALSE, requestCounts |-> counted]
     ELSE [allowed |-> TRUE, requestCounts |-> [k \in kept |-> counted[k]]]

\* checkRateLimit never deleting a key
checkRateLimitKeepsAll(counts, url, t) ==
  LET minute == t \div MinuteMs
      key == <<url, minute>>
      count == IF key \in DOMAIN counts THEN counts[key] ELSE 0
      counted == [k \in (DOMAIN counts) \cup {key} |-> IF k = key THEN count + 1 ELSE counts[k]]
  IN IF count >= RateLimitMax
     THEN [allowed |-> FALSE, requestCounts |-> counts]
     ELSE [allowed |-> TRUE, requestCounts |-> counted]

\* checkRateLimit letting every request through
checkRateLimitAllowsAll(counts, url, t) ==
  LET minute == t \div MinuteMs
      key == <<url, minute>>
      count == IF key \in DOMAIN counts THEN counts[key] ELSE 0
      counted == [k \in (DOMAIN counts) \cup {key} |-> IF k = key THEN count + 1 ELSE counts[k]]
      kept == {k \in DOMAIN counted : ~(minute - k[2] > RateLimitKeepMinutes)}
  IN [allowed |-> TRUE, requestCounts |-> [k \in kept |-> counted[k]]]

\* checkRateLimit(url) at time t: whether the request is allowed, and the
\* counter map it leaves.  A key is `${url}-${minute}`: the pair <<url, minute>>.
checkRateLimit(counts, url, t) ==
  LET minute == t \div MinuteMs
      key == <<url, minute>>
      count == IF key \in DOMAIN counts THEN counts[key] ELSE 0
      counted == [k \in (DOMAIN counts) \cup {key} |-> IF k = key THEN count + 1 ELSE counts[k]]
      kept == {k \in DOMAIN counted : ~(minute - k[2] > RateLimitKeepMinutes)}
  IN IF count >= RateLimitMax
     THEN [allowed |-> FALSE, requestCounts |-> counts]
     ELSE [allowed |-> TRUE, requestCounts |-> [k \in kept |-> counted[k]]]


(***************************************************************************)
(* bypassPaywall.  A call is at one of its await points: "detecting"       *)
(* (await paywallDetector.isPaywalled) or "attempting" (await              *)
(* method.attempt); "done" once it has returned.  outcomes and log are the *)
(* call's history: how each attempt ended, and what the call passed to     *)
(* recordAttempt.                                                          *)
(***************************************************************************)
NoUrl == MkUrl(FALSE, "", "", FALSE, FALSE)

NoResult ==
  [success |-> FALSE, error |-> "", method |-> "", responseTime |-> 0,
   attemptedMethods |-> <<>>]

Failure(error) == [NoResult EXCEPT !.error = error]

IdleCall ==
  [pc |-> "idle", url |-> NoUrl, domain |-> "", methods |-> <<>>, index |-> 0,
   startTime |-> 0, passed |-> FALSE, outcomes |-> <<>>, log |-> <<>>, result |-> NoResult]

Return(call, result) == [call EXCEPT !.pc = "done", !.result = result]

\* AttemptEffect with the catch block recording the elapsed time, not 0
AttemptEffectTimesThrow(url, method, outcome, responseTime) ==
  LET domain == extractDomain(url)
      success == outcome = "ok"
      recorded == recordAttempt(Store, url, method, success, responseTime)
  IN [store |-> recorded,
      record |-> recorded.recentAttempts[Len(recorded.recentAttempts)],
      methodMetrics |-> IF outcome = "throw" THEN methodMetrics
                        ELSE [methodMetrics EXCEPT ![method] = recordMetrics(@, success)],
      strategy |-> IF outcome = "throw" THEN domainStrategies[domain]
                   ELSE updateDomainStrategy(domainStrategies[domain], recorded, domain,
                                             method, success)]

\* What one attempt of the loop leaves in the method, the metrics store and the
\* domain strategy.  A result (ok, fail) is recorded with the measured time and
\* the strategy is updated; a throw is recorded as a failure with time 0.
AttemptEffect(url, method, outcome, responseTime) ==
  LET domain == extractDomain(url)
      success == outcome = "ok"
      recorded == IF outcome = "throw" THEN recordAttempt(Store, url, method, FALSE, 0)
                  ELSE recordAttempt(Store, url, method, success, responseTime)
  IN [store |-> recorded,
      record |-> recorded.recentAttempts[Len(recorded.recentAttempts)],
      methodMetrics |-> IF outcome = "throw" THEN methodMetrics
                        ELSE [methodMetrics EXCEPT ![method] = recordMetrics(@, success)],
      strategy |-> IF outcome = "throw" THEN domainStrategies[domain]
                   ELSE updateDomainStrategy(domainStrategies[domain], recorded, domain,
                                             method, success)]

\* NextCandidate stepping over a candidate
NextCandidateSkips(call) ==
  IF call.index + 1 < Len(call.methods)
  THEN [call EXCEPT !.index = @ + 2, !.startTime = now]
  ELSE Return(call, [Failure("All bypass methods failed") EXCEPT
                       !.attemptedMethods = call.methods])

\* NextCandidate reporting only the methods whose attempt returned a result
NextCandidateOmitsThrown(call) ==
  IF call.index < Len(call.methods)
  THEN [call EXCEPT !.index = @ + 1, !.startTime = now]
  ELSE Return(call, [Failure("All bypass methods failed") EXCEPT
                       !.attemptedMethods =
                          LET Returned(i) == call.outcomes[i] # "throw"
                              kept == SelectSeq([i \in 1..Len(call.outcomes) |-> i], Returned)
                          IN [k \in 1..Len(kept) |-> call.methods[kept[k]]]])

\* NextCandidate reporting a success once the candidates are exhausted
NextCandidateReportsSuccess(call) ==
  IF call.index < Len(call.methods)
  THEN [call EXCEPT !.index = @ + 1, !.startTime = now]
  ELSE Return(call, [NoResult EXCEPT !.success = TRUE,
                                     !.method = call.methods[call.index]])

\* The loop after an attempt that did not succeed: the next candidate's attempt
\* starts at once, or the candidates are exhausted
NextCandidate(call) ==
  IF call.index < Len(call.methods)
  THEN [call EXCEPT !.index = @ + 1, !.startTime = now]
  ELSE Return(call, [Failure("All bypass methods failed") EXCEPT
                       !.attemptedMethods = call.methods])

\* bypassPaywall(raw) up to its first await: the URL is normalized, its
\* domain extracted and the classifier asked
BeginCall(raw) ==
  LET normalizedUrl == normalizeUrl(raw)
  IN [IdleCall EXCEPT !.pc = "detecting", !.url = normalizedUrl,
                      !.domain = extractDomain(normalizedUrl)]

StartCall(c, urls, maxCalls) ==
  /\ calls[c].pc \in {"idle", "done"}
  /\ started < maxCalls
  /\ \E raw \in urls : calls' = [calls EXCEPT ![c] = BeginCall(raw)]
  /\ started' = started + 1
  /\ UNCHANGED <<lifeVars, clockVars, registryVars, storeVars, serviceVars, passLog, failedChecks,
                 selected>>

\* Detect with checkRateLimit run before the classifier is asked
DetectCountsFirst(c) ==
  /\ calls[c].pc = "detecting"
  /\ \E verdict \in {"paywalled", "free", "reject"} :
       LET call == calls[c]
           limit == checkRateLimit(requestCounts, call.url, now)
           candidates == getMethodsForDomain(call.domain)
       IN IF ~limit.allowed
          THEN /\ calls' = [calls EXCEPT ![c] = Return(call, Failure("Rate limit exceeded"))]
               /\ UNCHANGED <<requestCounts, passLog>>
          ELSE /\ requestCounts' = limit.requestCounts
               /\ passLog' = Append(passLog, <<call.url, now>>)
               /\ calls' = [calls EXCEPT ![c] =
                    IF verdict = "free"
                    THEN Return(call, Failure("URL is not paywalled"))
                    ELSE IF verdict = "reject"
                    THEN Return(call, Failure("classifier error"))
                    ELSE IF Len(candidates) = 0
                    THEN Return([call EXCEPT !.passed = TRUE],
                                Failure("No available bypass methods"))
                    ELSE [call EXCEPT !.pc = "attempting", !.passed = TRUE,
                                      !.methods = candidates, !.index = 1,
                                      !.startTime = now]]
  /\ UNCHANGED <<lifeVars, clockVars, registryVars, storeVars, domainStrategies, started, failedChecks,
                 selected>>

\* isPaywalled resolves (paywalled or free) or rejects; a paywalled URL goes
\* through checkRateLimit and getMethodsForDomain to the first attempt
Detect(c) ==
  /\ calls[c].pc = "detecting"
  /\ \E verdict \in {"paywalled", "free", "reject"} :
       LET call == calls[c]
           limit == checkRateLimit(requestCounts, call.url, now)
           candidates == getMethodsForDomain(call.domain)
       IN IF verdict = "free"
          THEN /\ calls' = [calls EXCEPT ![c] = Return(call, Failure("URL is not paywalled"))]
               /\ UNCHANGED <<requestCounts, passLog>>
          ELSE IF verdict = "reject"
          THEN /\ calls' = [calls EXCEPT ![c] = Return(call, Failure("classifier error"))]
               /\ UNCHANGED <<requestCounts, passLog>>
          ELSE IF ~limit.allowed
          THEN /\ calls' = [calls EXCEPT ![c] = Return(call, Failure("Rate limit exceeded"))]
               /\ requestCounts' = limit.requestCounts
               /\ UNCHANGED passLog
          ELSE /\ requestCounts' = limit.requestCounts
               /\ passLog' = Append(passLog, <<call.url, now>>)
               /\ calls' = [calls EXCEPT ![c] =
                    IF Len(candidates) = 0
                    THEN Return([call EXCEPT !.passed = TRUE],
                                Failure("No available bypass methods"))
                    ELSE [call EXCEPT !.pc = "attempting", !.passed = TRUE,
                                      !.methods = candidates, !.index = 1,
                                      !.startTime = now]]
  /\ UNCHANGED <<lifeVars, clockVars, registryVars, storeVars, domainStrategies, started, failedChecks,
                 selected>>

\* method.attempt settles: the loop body runs to the next await or to the return
AttemptReturns(c) ==
  /\ calls[c].pc = "attempting"
  /\ \E outcome \in Outcomes :
       LET call == calls[c]
           method == call.methods[call.index]
           responseTime == now - call.startTime
           effect == AttemptEffect(call.url, method, outcome, responseTime)
           logged == [call EXCEPT !.outcomes = Append(@, outcome),
                                  !.log = Append(@, effect.record)]
       IN /\ metrics' = effect.store.metrics
          /\ globalMetrics' = effect.store.globalMetrics
          /\ recentAttempts' = effect.store.recentAttempts
          /\ methodMetrics' = effect.methodMetrics
          /\ domainStrategies' = [domainStrategies EXCEPT ![call.domain] = effect.strategy]
          /\ calls' = [calls EXCEPT ![c] =
               IF outcome = "ok"
               THEN Return(logged, [NoResult EXCEPT !.success = TRUE,
                                                    !.method = method,
                                                    !.responseTime = responseTime])
               ELSE NextCandidate(logged)]
  /\ UNCHANGED <<lifeVars, clockVars, methods, config, healthStatus, requestCounts, started, passLog,
                 failedChecks, selected>>

\* Date.now() advances
Tick(maxTicks) ==
  /\ ticks < maxTicks
  /\ now' = now + TickMs
  /\ ticks' = ticks + 1
  /\ UNCHANGED <<lifeVars, checks, registryVars, storeVars, serviceVars, callVars, selected>>


(***************************************************************************)
(* Registry and method operations.                                         *)
(***************************************************************************)
\* The default BypassMethod.healthCheck of a registered method, its attempt on
\* the test URL ending in outcome.  Without a test URL nothing is attempted;
\* an attempt that returns has gone through the method's recordMetrics.
CheckEffect(m, outcome) ==
  IF ~config[m].testUrl
  THEN UNCHANGED <<healthStatus, methodMetrics, failedChecks>>
  ELSE /\ healthStatus' = [healthStatus EXCEPT ![m] = healthCheck(@, outcome)]
       /\ methodMetrics' = IF outcome = "throw" THEN methodMetrics
                           ELSE [methodMetrics EXCEPT ![m] = recordMetrics(@, outcome = "ok")]
       /\ failedChecks' = [failedChecks EXCEPT ![m] = IF outcome = "ok" THEN 0 ELSE @ + 1]

\* A caller runs the healthCheck of a registered method
HealthCheck(m) ==
  /\ Includes(methods, m)
  /\ checks < MaxHealthChecks
  /\ checks' = checks + 1
  /\ \E outcome \in Outcomes : CheckEffect(m, outcome)
  /\ UNCHANGED <<lifeVars, now, ticks, methods, config, storeVars, serviceVars, calls, started, passLog,
                 selected>>

\* updateConfig(newConfig) merging one key
updateConfig(cfg, key, value) ==
  IF key = "enabled" THEN [cfg EXCEPT !.enabled = value] ELSE [cfg EXCEPT !.priority = value]

\* updateMethodConfig(name, config): an unknown name is only logged
updateMethodConfig(name, key, value) ==
  IF getMethod(name) # "null" THEN [config EXCEPT ![name] = updateConfig(@, key, value)]
  ELSE config

SetMethodEnabled(m) ==
  /\ \E enabled \in BOOLEAN : config' = updateMethodConfig(m, "enabled", enabled)
  /\ UNCHANGED <<lifeVars, clockVars, methods, healthStatus, methodMetrics, storeVars, serviceVars,
                 callVars, selected>>

\* setMethodPriority throws for a priority outside 1..10
PriorityAccepted(priority) == ~(priority < MinPriority \/ priority > MaxPriority)

SetMethodPriority(m) ==
  /\ \E priority \in {MinPriority - 1, MaxPriority, MaxPriority + 1} :
       config' = IF PriorityAccepted(priority) THEN updateMethodConfig(m, "priority", priority)
                 ELSE config
  /\ UNCHANGED <<lifeVars, clockVars, methods, healthStatus, methodMetrics, storeVars, serviceVars,
                 callVars, selected>>

\* A caller asks the registry for getMethodsByPriority(true)
SelectByPriority ==
  /\ selected' = getMethodsByPriority(TRUE)
  /\ UNCHANGED <<lifeVars, clockVars, registryVars, storeVars, serviceVars, callVars>>

\* A caller asks the service for getMethodsForDomain(domain)
SelectForDomain(domain) ==
  /\ selected' = getMethodsForDomain(domain)
  /\ UNCHANGED <<lifeVars, clockVars, registryVars, storeVars, serviceVars, callVars>>

(***************************************************************************)
(* The learning step on its own: what the loop of bypassPaywall does with  *)
(* one attempt of a method on a URL that ends at once in outcome.          *)
(***************************************************************************)
LearnFromAttempt(url, m) ==
  /\ Len(recentAttempts) < MaxStrategyAttempts
  /\ \E outcome \in Outcomes :
       LET effect == AttemptEffect(url, m, outcome, 0)
       IN /\ metrics' = effect.store.metrics
          /\ globalMetrics' = effect.store.globalMetrics
          /\ recentAttempts' = effect.store.recentAttempts
          /\ methodMetrics' = effect.methodMetrics
          /\ domainStrategies' = [domainStrategies EXCEPT ![extractDomain(url)] = effect.strategy]
  /\ UNCHANGED <<lifeVars, clockVars, methods, config, healthStatus, requestCounts, callVars, selected>>

\* The four methods of the selection scenario: A(5) B(5) C(9) D(7)
ScenarioPriority(m) ==
  IF m = "C" THEN MaxPriority - 1 ELSE IF m = "D" THEN DefaultPriority + 2 ELSE DefaultPriority

\* The times an attempt of a method takes, in ms: A answers in 100, the others
\* in 100 or 200
ResponseTimes(m) == IF m = "A" THEN {100} ELSE {100, 200}

\* One attempt of the loop that returns a result after responseTime ms
TimedAttempt(url, m, maxAttempts) ==
  /\ Len(recentAttempts) < maxAttempts
  /\ \E outcome \in {"ok", "fail"}, responseTime \in ResponseTimes(m) :
       LET effect == AttemptEffect(url, m, outcome, responseTime)
       IN /\ metrics' = effect.store.metrics
          /\ globalMetrics' = effect.store.globalMetrics
          /\ recentAttempts' = effect.store.recentAttempts
          /\ methodMetrics' = effect.methodMetrics
          /\ domainStrategies' = [domainStrategies EXCEPT ![extractDomain(url)] = effect.strategy]
  /\ UNCHANGED <<lifeVars, clockVars, methods, config, healthStatus, requestCounts, callVars, selected>>

\* cleanup() and then initialize(): the registry is emptied and the methods
\* are registered anew, the counter map and the domain strategies are cleared,
\* the metrics store is kept
Restart ==
  /\ config' = [m \in MethodNames |-> NewConfig(ScenarioPriority(m), config[m].testUrl)]
  /\ healthStatus' = [m \in MethodNames |-> NewHealthStatus]
  /\ methodMetrics' = [m \in MethodNames |-> NewMethodMetrics]
  /\ requestCounts' = <<>>
  /\ domainStrategies' = [d \in Domains |-> NoStrategy]
  /\ failedChecks' = [m \in MethodNames |-> 0]
  /\ UNCHANGED <<lifeVars, clockVars, methods, storeVars, calls, started, passLog, selected>>

(***************************************************************************)
(* Initial states.  The registry holds the methods initialize() registered; *)
(* the metrics store, the counter map and the strategies are empty.        *)
(***************************************************************************)

\* A processUrls call that has not been made
NoBatch == [state |-> "idle", urls |-> <<>>, index |-> 0, results |-> <<>>, outcomes |-> <<>>]

\* What performHealthChecks returns over no methods
NoReport == [totalMethods |-> 0, healthyMethods |-> 0, results |-> <<>>]

\* The registry and the service around the registered methods: no timer (the
\* service is initialized with NODE_ENV = test), no run, no call made
InitLife(registered, isInitialized) ==
  /\ generation = [m \in MethodNames |-> IF Includes(registered, m) THEN 1 ELSE 0]
  /\ healthCheckInterval = 0
  /\ intervals = <<>>
  /\ runs = <<>>
  /\ report = NoReport
  /\ cleanupCalls = [m \in MethodNames |-> 0]
  /\ cleaning = "none"
  /\ raised = ""
  /\ cleanupsInARow = 0
  /\ initialized = isInitialized
  /\ registrations = IF isInitialized THEN 1 ELSE 0
  /\ batch = NoBatch
  /\ attemptLog = <<>>
  /\ averageResponseTime = [m \in MethodNames |-> <<0, 1>>]
  /\ recordedTimes = [m \in MethodNames |-> <<>>]

InitWith(registered, noTestUrl) ==
  /\ now = 0
  /\ ticks = 0
  /\ checks = 0
  /\ methods = registered
  /\ config = [m \in MethodNames |-> NewConfig(ScenarioPriority(m), m \notin noTestUrl)]
  /\ healthStatus = [m \in MethodNames |-> NewHealthStatus]
  /\ methodMetrics = [m \in MethodNames |-> NewMethodMetrics]
  /\ metrics = [d \in Domains |-> <<>>]
  /\ globalMetrics = <<>>
  /\ recentAttempts = <<>>
  /\ requestCounts = <<>>
  /\ domainStrategies = [d \in Domains |-> NoStrategy]
  /\ calls = [c \in CallIds |-> IdleCall]
  /\ started = 0
  /\ passLog = <<>>
  /\ failedChecks = [m \in MethodNames |-> 0]
  /\ selected = <<>>
  /\ InitLife(methods, registered # <<>>)

(***************************************************************************)
(* Spec: sequential bypassPaywall calls over three registered methods.     *)
(***************************************************************************)
OrchUrls == {MkUrl(FALSE, "x.com", "/a", FALSE, FALSE), MkUrl(TRUE, "y.com", "", FALSE, TRUE)}

Init == InitWith(<<"A", "B", "C">>, {})

Next ==
  \/ StartCall(1, OrchUrls, MaxCalls)
  \/ Detect(1)
  \/ AttemptReturns(1)
  \/ Tick(MaxTicks)

Spec == Init /\ [][Next]_vars

(***************************************************************************)
(* SpecRate: many calls for one normalized URL over one registered method, *)
(* across minute buckets.                                                  *)
(***************************************************************************)
RateUrls == {MkUrl(FALSE, "x.com", "/a", FALSE, FALSE), MkUrl(FALSE, "x.com", "/a", TRUE, TRUE)}

InitRate == InitWith(<<"A">>, {})

NextRate ==
  \/ StartCall(1, RateUrls, MaxRateCalls)
  \/ Detect(1)
  \/ AttemptReturns(1)
  \/ Tick(MaxRateTicks)

SpecRate == InitRate /\ [][NextRate]_vars

(***************************************************************************)
(* SpecWindow: many calls for one normalized URL on the service as         *)
(* constructed, its registry still empty, across minute buckets.           *)
(***************************************************************************)
InitWindow == InitWith(<<>>, {})

NextWindow ==
  \/ StartCall(1, RateUrls, MaxWindowCalls)
  \/ Detect(1)
  \/ Tick(MaxRateTicks)

SpecWindow == InitWindow /\ [][NextWindow]_vars

(***************************************************************************)
(* SpecStrategy: the learning step of one method on one domain, repeated.  *)
(***************************************************************************)
StrategyUrl == MkUrl(FALSE, "x.com", "/a", FALSE, FALSE)

InitStrategy == InitWith(<<"A">>, {})

NextStrategy == LearnFromAttempt(StrategyUrl, "A")

SpecStrategy == InitStrategy /\ [][NextStrategy]_vars

(***************************************************************************)
(* SpecRegistry: health checks and configuration changes of three methods, *)
(* one of them without a test URL.                                         *)
(***************************************************************************)
InitRegistry == InitWith(<<"A", "B", "C">>, {"B"})

NextRegistry ==
  \/ \E m \in {"A", "B", "C"} : HealthCheck(m)
  \/ \E m \in {"A", "B", "C", "D"} : SetMethodEnabled(m)
  \/ \E m \in {"A", "B", "C", "D"} : SetMethodPriority(m)
  \/ SelectByPriority

SpecRegistry == InitRegistry /\ [][NextRegistry]_vars


(***************************************************************************)
(* SpecSelect: getMethodsForDomain over four registered methods, for       *)
(* domain strategies and health states drawn from bounded sets (a strategy *)
(* outlives the metrics it was learned from: clearAllMetrics leaves it).   *)
(***************************************************************************)
\* The sequences without repetition over a set of names
Arrangements(S) ==
  UNION {{s \in [1..n -> S] : \A i, j \in 1..n : i # j => s[i] # s[j]} : n \in 0..Cardinality(S)}

Unhealthy == [healthy |-> FALSE, consecutiveFailures |-> UnhealthyThreshold]

InitSelect ==
  /\ now = 0
  /\ ticks = 0
  /\ checks = 0
  /\ methods = <<"A", "B", "C", "D">>
  /\ config = [m \in MethodNames |-> NewConfig(ScenarioPriority(m), TRUE)]
  /\ \E down \in SUBSET {"B", "D"} :
       /\ healthStatus = [m \in MethodNames |-> IF m \in down THEN Unhealthy ELSE NewHealthStatus]
       /\ failedChecks = [m \in MethodNames |-> IF m \in down THEN UnhealthyThreshold ELSE 0]
  /\ methodMetrics = [m \in MethodNames |-> NewMethodMetrics]
  /\ metrics = [d \in Domains |-> <<>>]
  /\ globalMetrics = <<>>
  /\ recentAttempts = <<>>
  /\ requestCounts = <<>>
  /\ \E preferred \in Arrangements({"A", "B", "C", "E"}), blacklisted \in Arrangements({"A", "C"}) :
       domainStrategies =
         [d \in Domains |-> IF d = "x.com"
                            THEN [NewStrategy EXCEPT !.preferredMethods = preferred,
                                                     !.blacklistedMethods = blacklisted]
                            ELSE NoStrategy]
  /\ calls = [c \in CallIds |-> IdleCall]
  /\ started = 0
  /\ passLog = <<>>
  /\ selected = <<>>
  /\ InitLife(methods, TRUE)

NextSelect ==
  \/ \E d \in Domains : SelectForDomain(d)
  \/ \E m \in {"A", "D"} : SetMethodEnabled(m)

SpecSelect == InitSelect /\ [][NextSelect]_vars


(***************************************************************************)
(* SpecHistory: attempts of two of three registered methods on one domain, *)
(* restarts of the service, and getMethodsForDomain.                       *)
(***************************************************************************)
InitHistory == InitWith(<<"A", "B", "C">>, {})

NextHistory ==
  \/ \E m \in {"A", "C"} : TimedAttempt(StrategyUrl, m, MaxHistoryAttempts)
  \/ Restart
  \/ SelectForDomain("x.com")

SpecHistory == InitHistory /\ [][NextHistory]_vars

(***************************************************************************)
(* SpecLearn: attempts of three methods on one domain, each returning a    *)
(* result.                                                                 *)
(***************************************************************************)
InitLearn == InitWith(<<"A", "B", "C">>, {})

NextLearn == \E m \in {"A", "B", "C"} : TimedAttempt(StrategyUrl, m, MaxLearnAttempts)

SpecLearn == InitLearn /\ [][NextLearn]_vars

(***************************************************************************)
(* SpecMetrics: BypassMetrics.recordAttempt for two methods on two         *)
(* domains: a long run of failures of A on x.com with a few other attempts *)
(* anywhere in it.                                                         *)
(***************************************************************************)
OtherUrl == MkUrl(FALSE, "y.com", "/", FALSE, FALSE)

RecordAttempt(url, method, success, responseTime) ==
  LET recorded == recordAttempt(Store, url, method, success, responseTime)
      Varied(a) == ~(a.url = StrategyUrl /\ a.method = "A" /\ ~a.success)
  IN /\ Len(recentAttempts) < MaxRecorded
     /\ Len(SelectSeq(recorded.recentAttempts, Varied)) <= MaxVaried
     /\ metrics' = recorded.metrics
     /\ globalMetrics' = recorded.globalMetrics
     /\ recentAttempts' = recorded.recentAttempts
     /\ UNCHANGED <<lifeVars, clockVars, registryVars, serviceVars, callVars, selected>>

InitMetrics == InitWith(<<"A", "B">>, {})

NextMetrics ==
  \E url \in {StrategyUrl, OtherUrl}, method \in {"A", "B"}, success \in BOOLEAN :
    RecordAttempt(url, method, success, 100)

SpecMetrics == InitMetrics /\ [][NextMetrics]_vars

(***************************************************************************)
(* SpecBlacklist: a long run of attempts of A on x.com, mostly failures,   *)
(* recorded by BypassMetrics.recordAttempt.                                *)
(***************************************************************************)
RecordRun(url, method, maxRecorded, maxSuccesses) ==
  /\ Len(recentAttempts) < maxRecorded
  /\ \E success \in BOOLEAN :
       LET recorded == recordAttempt(Store, url, method, success, 100)
       IN /\ Len(SelectSeq(recorded.recentAttempts, LAMBDA a : a.success)) <= maxSuccesses
          /\ metrics' = recorded.metrics
          /\ globalMetrics' = recorded.globalMetrics
          /\ recentAttempts' = recorded.recentAttempts
  /\ UNCHANGED <<lifeVars, clockVars, registryVars, serviceVars, callVars, selected>>

InitBlacklist == InitWith(<<"A">>, {})

NextBlacklist == RecordRun(StrategyUrl, "A", MaxRunAttempts, MaxRunSuccesses)

SpecBlacklist == InitBlacklist /\ [][NextBlacklist]_vars

(***************************************************************************)
(* SpecBest: getBestMethodsForDomain on metrics stores that recordAttempt  *)
(* has filled with the histories of three methods on one domain, each      *)
(* history drawn from a few profiles.                                      *)
(***************************************************************************)
\* A history: `old` attempts, oldOk of them successes, followed by `recent`
\* attempts (at most a window), recentOk of them successes, each taking `time`
Profiles ==
  {[old |-> 3, oldOk |-> 3, recent |-> 20, recentOk |-> 12, time |-> 100],
   [old |-> 3, oldOk |-> 0, recent |-> 20, recentOk |-> 14, time |-> 200],
   [old |-> 3, oldOk |-> 0, recent |-> 20, recentOk |-> 15, time |-> 300],
   [old |-> 0, oldOk |-> 0, recent |-> 4, recentOk |-> 2, time |-> 100],
   [old |-> 0, oldOk |-> 0, recent |-> 2, recentOk |-> 0, time |-> 100]}

HistoryOf(url, method, profile) ==
  LET Made(success) == [url |-> url, method |-> method, success |-> success,
                        responseTime |-> profile.time]
  IN [i \in 1..profile.old |-> Made(i <= profile.oldOk)]
       \o [i \in 1..profile.recent |-> Made(i <= profile.recentOk)]

EmptyStore == [metrics |-> [d \in Domains |-> <<>>], globalMetrics |-> <<>>, recentAttempts |-> <<>>]

\* The store after recordAttempt has been called for each attempt in turn
ReplayAttempts(store, attempts) ==
  LET after[i \in 0..Len(attempts)] ==
        IF i = 0 THEN store
        ELSE recordAttempt(after[i - 1], attempts[i].url, attempts[i].method,
                           attempts[i].success, attempts[i].responseTime)
  IN after[Len(attempts)]

\* The store after the attempts that gave store `first` have been followed by
\* those that gave store `second`, the two being about different methods
JoinStores(first, second) ==
  [metrics |-> [d \in Domains |-> first.metrics[d] \o second.metrics[d]],
   globalMetrics |-> first.globalMetrics \o second.globalMetrics,
   recentAttempts |-> first.recentAttempts \o second.recentAttempts]

InitBest ==
  /\ now = 0
  /\ ticks = 0
  /\ checks = 0
  /\ methods = <<"A", "B", "C">>
  /\ config = [m \in MethodNames |-> NewConfig(ScenarioPriority(m), TRUE)]
  /\ healthStatus = [m \in MethodNames |-> NewHealthStatus]
  /\ methodMetrics = [m \in MethodNames |-> NewMethodMetrics]
  /\ \E a \in Profiles, b \in Profiles, c \in Profiles :
       LET store == JoinStores(
                      JoinStores(ReplayAttempts(EmptyStore, HistoryOf(StrategyUrl, "A", a)),
                                 ReplayAttempts(EmptyStore, HistoryOf(StrategyUrl, "B", b))),
                      ReplayAttempts(EmptyStore, HistoryOf(StrategyUrl, "C", c)))
       IN /\ metrics = store.metrics
          /\ globalMetrics = store.globalMetrics
          /\ recentAttempts = store.recentAttempts
  /\ requestCounts = <<>>
  /\ domainStrategies = [d \in Domains |-> NoStrategy]
  /\ calls = [c \in CallIds |-> IdleCall]
  /\ started = 0
  /\ passLog = <<>>
  /\ failedChecks = [m \in MethodNames |-> 0]
  /\ selected = <<>>
  /\ InitLife(methods, TRUE)

\* A caller asks the metrics store for getBestMethodsForDomain(domain, minAttempts)
SelectBest(domain) ==
  /\ \E minAttempts \in {BestMinAttempts, DefaultMinAttempts} :
       LET best == getBestMethodsForDomain(Store, domain, minAttempts)
       IN selected' = [i \in 1..Len(best) |-> best[i].method]
  /\ UNCHANGED <<lifeVars, clockVars, registryVars, storeVars, serviceVars, callVars>>

NextBest == \E d \in Domains : SelectBest(d)

SpecBest == InitBest /\ [][NextBest]_vars

(***************************************************************************)
(* The registry's life: registration, the periodic timer, the runs of      *)
(* performHealthChecks and cleanup.  A caller makes its calls one after    *)
(* another and awaits cleanup() before the next; timers fire and health    *)
(* checks settle in between.                                               *)
(***************************************************************************)
\* The cleanup() calls in a row once call has been made
Called(call) == IF call = "cleanup" THEN MathMin(cleanupsInARow + 1, 2) ELSE 0

\* The objects handed to register: instances of BypassMethod named A (with a
\* test URL, of priority 5 or 10) and B (without a test URL), and an object
\* of another class
Candidates ==
  {[instance |-> TRUE, name |-> "A", priority |-> p, testUrl |-> TRUE] :
     p \in {DefaultPriority, MaxPriority}}
  \cup {[instance |-> TRUE, name |-> "B", priority |-> DefaultPriority, testUrl |-> FALSE],
        [instance |-> FALSE, name |-> "A", priority |-> DefaultPriority, testUrl |-> FALSE]}

\* methods.set(name, method) adding an entry whatever the Map holds
registerAppends(names, name) == Append(names, name)

\* methods.set(name, method) on the names: a new key goes last, a key the Map
\* holds keeps its place
register(names, name) == IF Includes(names, name) THEN names ELSE Append(names, name)

\* A caller hands an object to register(method)
RegisterObject(method) ==
  /\ cleaning = "none"
  /\ IF ~method.instance
     THEN /\ raised' = "Method must extend BypassMethod class"
          /\ UNCHANGED <<registryVars, generation, failedChecks>>
     ELSE /\ generation[method.name] < MaxGenerations
          /\ raised' = ""
          /\ methods' = register(methods, method.name)
          /\ config' = [config EXCEPT ![method.name] = NewConfig(method.priority, method.testUrl)]
          /\ healthStatus' = [healthStatus EXCEPT ![method.name] = NewHealthStatus]
          /\ methodMetrics' = [methodMetrics EXCEPT ![method.name] = NewMethodMetrics]
          /\ generation' = [generation EXCEPT ![method.name] = @ + 1]
          /\ failedChecks' = [failedChecks EXCEPT ![method.name] = 0]
  /\ cleanupsInARow' = Called("register")
  /\ UNCHANGED <<clockVars, storeVars, serviceVars, calls, started, passLog, selected,
                 timerVars, cleanupCalls, cleaning, initialized, registrations, batch,
                 attemptLog,
                 averageResponseTime, recordedTimes>>

Register == \E method \in Candidates : RegisterObject(method)

\* stopHealthChecks dropping the handle without clearInterval
stopHealthChecksForgets(handle, timers) == timers

\* stopHealthChecks on the runtime's timers: clearInterval(handle) when the
\* registry holds one
stopHealthChecks(handle, timers) ==
  IF handle # 0 THEN [timers EXCEPT ![handle] = FALSE] ELSE timers

\* startHealthChecks installing its timer beside the one the registry holds
startHealthChecksKeepsOld(handle, timers) == Append(timers, TRUE)

\* startHealthChecks on the runtime's timers: the held one is stopped, then
\* setInterval installs the next handle
startHealthChecks(handle, timers) == Append(stopHealthChecks(handle, timers), TRUE)

StartHealthChecks ==
  /\ cleaning = "none"
  /\ Len(intervals) < MaxIntervals
  /\ intervals' = startHealthChecks(healthCheckInterval, intervals)
  /\ healthCheckInterval' = Len(intervals) + 1
  /\ raised' = ""
  /\ cleanupsInARow' = Called("startHealthChecks")
  /\ UNCHANGED <<clockVars, registryVars, storeVars, serviceVars, callVars, selected,
                 generation, runs, report, cleanupCalls, cleaning, initialized, registrations,
                 batch, attemptLog,
                 averageResponseTime, recordedTimes>>

StopHealthChecks ==
  /\ cleaning = "none"
  /\ intervals' = stopHealthChecks(healthCheckInterval, intervals)
  /\ healthCheckInterval' = 0
  /\ raised' = ""
  /\ cleanupsInARow' = Called("stopHealthChecks")
  /\ UNCHANGED <<clockVars, registryVars, storeVars, serviceVars, callVars, selected,
                 generation, runs, report, cleanupCalls, cleaning, initialized, registrations,
                 batch, attemptLog,
                 averageResponseTime, recordedTimes>>

\* How a healthCheck() ends: as the attempt of the default check ends, or
\* "raise" for an overriding healthCheck that throws
CheckOutcomes == Outcomes \cup {"raise"}

\* performHealthChecks up to its await: the registered methods are listed and
\* the healthCheck of each is started
NewRun(source) ==
  [source |-> source, methods |-> getAllMethods, ids |-> generation,
   pending |-> Range(getAllMethods), results |-> <<>>]

\* performHealthChecks counting every listed method as healthy
SummaryCountsAll(run) ==
  [totalMethods |-> Len(run.methods), healthyMethods |-> Len(run.methods),
   results |-> run.results]

\* What performHealthChecks returns once every check has settled
Summary(run) ==
  [totalMethods |-> Len(run.methods),
   healthyMethods |-> Cardinality({i \in 1..Len(run.results) : run.results[i].val.healthy}),
   results |-> run.results]

StartRun(source) ==
  /\ Len(runs) < MaxRuns
  /\ runs' = Append(runs, NewRun(source))
  /\ report' = IF Len(getAllMethods) = 0 THEN Summary(NewRun(source)) ELSE report

\* The interval callback of a timer that has not been cleared
TimerFires ==
  /\ \E t \in 1..Len(intervals) : intervals[t]
  /\ StartRun("timer")
  /\ UNCHANGED <<clockVars, registryVars, storeVars, serviceVars, callVars, selected,
                 generation, healthCheckInterval, intervals, cleanupCalls, cleaning, raised,
                 cleanupsInARow, initialized, registrations, batch, attemptLog,
                 averageResponseTime, recordedTimes>>

\* A caller asks for performHealthChecks()
PerformHealthChecks ==
  /\ cleaning = "none"
  /\ StartRun("caller")
  /\ raised' = ""
  /\ cleanupsInARow' = Called("performHealthChecks")
  /\ UNCHANGED <<clockVars, registryVars, storeVars, serviceVars, callVars, selected,
                 generation, healthCheckInterval, intervals, cleanupCalls, cleaning,
                 initialized, registrations, batch, attemptLog,
                 averageResponseTime, recordedTimes>>

\* The object a run listed under name m is still the registered one
StillRegistered(run, m) == Includes(methods, m) /\ generation[m] = run.ids[m]

\* What the healthCheck of a run's method may report as `healthy`; the state
\* of an object that left the registry is not followed
HealthyResults(run, m, outcome) ==
  IF outcome \in {"raise", "throw"} THEN {FALSE}
  ELSE IF StillRegistered(run, m) THEN {healthCheckResult(m, outcome)}
  ELSE IF outcome = "ok" THEN {TRUE}
  ELSE BOOLEAN

\* The message of a result: the registry's catch block reports "Health check
\* failed", the default healthCheck "Health check error" from its own catch
\* block, and otherwise how its attempt on the test URL ended
ResultMessage(run, m, outcome) ==
  IF outcome = "raise" THEN "Health check failed"
  ELSE IF StillRegistered(run, m) /\ ~config[m].testUrl THEN "No test URL configured"
  ELSE IF outcome = "throw" THEN "Health check error"
  ELSE IF outcome = "ok" THEN "Health check passed"
  ELSE "Health check failed"

\* The healthCheck of method m of run r settles; the run returns when it was
\* the last one pending
CheckSettles(r, m) ==
  /\ r \in 1..Len(runs)
  /\ m \in runs[r].pending
  /\ \E outcome \in CheckOutcomes :
       /\ IF StillRegistered(runs[r], m) /\ outcome # "raise"
          THEN CheckEffect(m, outcome)
          ELSE UNCHANGED <<healthStatus, methodMetrics, failedChecks>>
       /\ \E healthy \in HealthyResults(runs[r], m, outcome) :
            LET result == [healthy |-> healthy,
                           error |-> IF outcome \in {"raise", "throw"} THEN "error" ELSE "",
                           message |-> ResultMessage(runs[r], m, outcome)]
                settled == [runs[r] EXCEPT !.pending = @ \ {m},
                                           !.results = MapSet(@, m, result)]
            IN /\ runs' = [runs EXCEPT ![r] = settled]
               /\ report' = IF settled.pending = {} THEN Summary(settled) ELSE report
  /\ UNCHANGED <<clockVars, methods, config, storeVars, serviceVars, calls, started, passLog,
                 selected, generation, healthCheckInterval, intervals, cleanupCalls, cleaning,
                 raised, cleanupsInARow, initialized, registrations, batch, attemptLog,
                 averageResponseTime, recordedTimes>>

\* Registry.cleanup() up to its await: the timer is stopped and cleanup() of
\* every registered method is called
RegistryCleanup ==
  /\ cleaning = "none"
  /\ intervals' = stopHealthChecks(healthCheckInterval, intervals)
  /\ healthCheckInterval' = 0
  /\ cleanupCalls' = [m \in MethodNames |->
                        IF Includes(methods, m) THEN cleanupCalls[m] + 1 ELSE cleanupCalls[m]]
  /\ cleaning' = "registry"
  /\ raised' = ""
  /\ cleanupsInARow' = Called("cleanup")
  /\ UNCHANGED <<clockVars, registryVars, storeVars, serviceVars, callVars, selected,
                 generation, runs, report, initialized, registrations, batch, attemptLog,
                 averageResponseTime, recordedTimes>>

\* The methods' cleanups have resolved: methods.clear(); a service cleanup
\* goes on to clear its maps
CleanupCompletes ==
  /\ cleaning # "none"
  /\ methods' = <<>>
  /\ IF cleaning = "service"
     THEN /\ requestCounts' = <<>>
          /\ domainStrategies' = [d \in Domains |-> NoStrategy]
          /\ initialized' = FALSE
     ELSE UNCHANGED <<requestCounts, domainStrategies, initialized>>
  /\ cleaning' = "none"
  /\ UNCHANGED <<clockVars, config, healthStatus, methodMetrics, storeVars, callVars, selected,
                 generation, timerVars, cleanupCalls, raised, cleanupsInARow, registrations, batch,
                 attemptLog,
                 averageResponseTime, recordedTimes>>

(***************************************************************************)
(* SpecTimer: a registry that starts empty; methods A and B are registered *)
(* and replaced, the timer is started and stopped, runs of health checks   *)
(* are in flight while the registry is cleaned up.                         *)
(***************************************************************************)
InitTimer == InitWith(<<>>, {})

NextTimer ==
  \/ Register
  \/ StartHealthChecks
  \/ StopHealthChecks
  \/ TimerFires
  \/ PerformHealthChecks
  \/ \E r \in 1..MaxRuns, m \in {"A", "B"} : CheckSettles(r, m)
  \/ RegistryCleanup
  \/ CleanupCompletes

SpecTimer == InitTimer /\ [][NextTimer]_vars

(***************************************************************************)
(* The service's life: initialize and cleanup around bypassPaywall calls.  *)
(***************************************************************************)
\* The methods autoRegisterMethods finds, in the order it registers them
AutoRegistered == <<"A", "B", "C">>

\* initialize() going on whatever `initialized` says
initializeAlwaysRuns(isInitialized) == TRUE

\* initialize() goes on past `if (this.initialized) return`
initializeRuns(isInitialized) == ~isInitialized

\* register over a list of names, one after another
RECURSIVE registerAll(_, _)
registerAll(names, new) ==
  IF new = <<>> THEN names ELSE registerAll(register(names, Head(new)), Tail(new))

\* initialize(): nothing when initialized; else autoRegisterMethods registers
\* the methods anew (or rejects), NODE_ENV decides about the timer, and
\* `initialized` is set last
Initialize ==
  /\ cleaning = "none"
  /\ cleanupsInARow' = Called("initialize")
  /\ IF ~initializeRuns(initialized)
     THEN /\ raised' = ""
          /\ UNCHANGED <<registryVars, failedChecks, generation, healthCheckInterval, intervals,
                         initialized, registrations>>
     ELSE /\ registrations < MaxRegistrations
          /\ registrations' = registrations + 1
          /\ \E outcome \in {"ok", "throw"}, test \in BOOLEAN :
               IF outcome = "throw"
               THEN /\ raised' = "Init failed"
                    /\ UNCHANGED <<registryVars, failedChecks, generation, healthCheckInterval,
                                   intervals, initialized>>
               ELSE /\ raised' = ""
                    /\ methods' = registerAll(methods, AutoRegistered)
                    /\ config' = [m \in MethodNames |->
                                    IF Includes(AutoRegistered, m)
                                    THEN NewConfig(ScenarioPriority(m), TRUE) ELSE config[m]]
                    /\ healthStatus' = [m \in MethodNames |->
                                          IF Includes(AutoRegistered, m) THEN NewHealthStatus
                                          ELSE healthStatus[m]]
                    /\ methodMetrics' = [m \in MethodNames |->
                                           IF Includes(AutoRegistered, m) THEN NewMethodMetrics
                                           ELSE methodMetrics[m]]
                    /\ failedChecks' = [m \in MethodNames |->
                                          IF Includes(AutoRegistered, m) THEN 0
                                          ELSE failedChecks[m]]
                    /\ generation' = [m \in MethodNames |->
                                        IF Includes(AutoRegistered, m) THEN generation[m] + 1
                                        ELSE generation[m]]
                    /\ IF test
                       THEN UNCHANGED <<healthCheckInterval, intervals>>
                       ELSE /\ intervals' = startHealthChecks(healthCheckInterval, intervals)
                            /\ healthCheckInterval' = Len(intervals) + 1
                    /\ initialized' = TRUE
  /\ UNCHANGED <<clockVars, storeVars, serviceVars, calls, started, passLog, selected, runs,
                 report, cleanupCalls, cleaning, batch, attemptLog,
                 averageResponseTime, recordedTimes>>

\* SmartBypassService.cleanup() up to the await inside registry.cleanup():
\* the strategies are saved (a stub), the timer is stopped and cleanup() of
\* every registered method is called
ServiceCleanup ==
  /\ cleaning = "none"
  /\ intervals' = stopHealthChecks(healthCheckInterval, intervals)
  /\ healthCheckInterval' = 0
  /\ cleanupCalls' = [m \in MethodNames |->
                        IF Includes(methods, m) THEN cleanupCalls[m] + 1 ELSE cleanupCalls[m]]
  /\ cleaning' = "service"
  /\ raised' = ""
  /\ cleanupsInARow' = Called("cleanup")
  /\ UNCHANGED <<clockVars, registryVars, storeVars, serviceVars, callVars, selected,
                 generation, runs, report, initialized, registrations, batch, attemptLog,
                 averageResponseTime, recordedTimes>>

(***************************************************************************)
(* SpecLife: a service from its construction on: initialize, calls for one *)
(* URL, cleanup, initialize again.                                         *)
(***************************************************************************)
InitLifecycle == InitWith(<<>>, {})

NextLife ==
  \/ Initialize
  \/ ServiceCleanup
  \/ CleanupCompletes
  \/ StartCall(1, {StrategyUrl}, MaxLifeCalls)
  \/ Detect(1)
  \/ AttemptReturns(1)

SpecLife == InitLifecycle /\ [][NextLife]_vars

(***************************************************************************)
(* processUrls: bypassPaywall for one URL after another.                   *)
(***************************************************************************)
\* The lists of URLs handed to processUrls
BatchUrls == UNION {[1..n -> OrchUrls] : n \in 0..MaxBatchUrls}

\* The loop body pushing whatever bypassPaywall returned
collectAll(results, url, result) == Append(results, [originalUrl |-> url, result |-> result])

\* The loop body after bypassPaywall returned: a successful result is pushed
\* with the URL as it was handed in
collect(results, url, result) ==
  IF result.success THEN Append(results, [originalUrl |-> url, result |-> result])
  ELSE results

\* processUrls(urls) up to the first await: bypassPaywall is called for the
\* first URL, or the empty list is returned
ProcessUrls ==
  /\ batch.state = "idle"
  /\ calls[1].pc \in {"idle", "done"}
  /\ \E urls \in BatchUrls :
       IF urls = <<>>
       THEN /\ batch' = [NoBatch EXCEPT !.state = "returned"]
            /\ UNCHANGED <<calls, started>>
       ELSE /\ batch' = [NoBatch EXCEPT !.state = "running", !.urls = urls, !.index = 1]
            /\ calls' = [calls EXCEPT ![1] = BeginCall(urls[1])]
            /\ started' = started + 1
  /\ UNCHANGED <<clockVars, registryVars, storeVars, serviceVars, passLog, failedChecks,
                 selected, generation, timerVars, cleanupCalls, cleaning, raised,
                 cleanupsInARow, initialized, registrations, attemptLog,
                 averageResponseTime, recordedTimes>>

\* bypassPaywall has returned to the loop: the result is looked at and the
\* next URL's call is made, or the results are returned
BatchContinues ==
  /\ batch.state = "running"
  /\ calls[1].pc = "done"
  /\ LET result == calls[1].result
         more == batch.index < Len(batch.urls)
     IN /\ batch' = [batch EXCEPT
                       !.results = collect(@, batch.urls[batch.index], result),
                       !.outcomes = Append(@, [url |-> calls[1].url, result |-> result]),
                       !.index = IF more THEN @ + 1 ELSE @,
                       !.state = IF more THEN "running" ELSE "returned"]
        /\ IF more
           THEN /\ calls' = [calls EXCEPT ![1] = BeginCall(batch.urls[batch.index + 1])]
                /\ started' = started + 1
           ELSE UNCHANGED <<calls, started>>
  /\ UNCHANGED <<clockVars, registryVars, storeVars, serviceVars, passLog, failedChecks,
                 selected, generation, timerVars, cleanupCalls, cleaning, raised,
                 cleanupsInARow, initialized, registrations, attemptLog,
                 averageResponseTime, recordedTimes>>

(***************************************************************************)
(* SpecBatch: one processUrls call over up to three URLs, two methods      *)
(* registered.                                                             *)
(***************************************************************************)
InitBatch == InitWith(<<"A", "B">>, {})

NextBatch ==
  \/ ProcessUrls
  \/ BatchContinues
  \/ Detect(1)
  \/ AttemptReturns(1)

SpecBatch == InitBatch /\ [][NextBatch]_vars

(***************************************************************************)
(* SpecRing: more attempts of one method on one URL than the ring buffer   *)
(* holds.  The response times go round 100, 200, 300 ms; the first and the *)
(* last attempts succeed or fail, the ones in between succeed.             *)
(***************************************************************************)
RecordNext ==
  /\ Len(attemptLog) < MaxRingAttempts
  /\ \E success \in IF Len(attemptLog) < MaxVaried \/ Len(attemptLog) >= MaxRecentAttempts
                    THEN BOOLEAN ELSE {TRUE} :
       LET responseTime == 100 * (1 + (Len(attemptLog) % 3))
           recorded == recordAttempt(Store, OtherUrl, "A", success, responseTime)
       IN /\ metrics' = recorded.metrics
          /\ globalMetrics' = recorded.globalMetrics
          /\ recentAttempts' = recorded.recentAttempts
          /\ attemptLog' = Append(attemptLog,
                                  [url |-> OtherUrl, domain |-> extractDomain(OtherUrl),
                                   method |-> "A", success |-> success,
                                   responseTime |-> responseTime])
  /\ UNCHANGED <<clockVars, registryVars, serviceVars, callVars, selected, generation,
                 timerVars, cleanupCalls, cleaning, raised, cleanupsInARow, initialized,
                 registrations, batch, averageResponseTime, recordedTimes>>

InitRing == InitWith(<<"A">>, {})

NextRing == RecordNext

SpecRing == InitRing /\ [][NextRing]_vars

(***************************************************************************)
(* SpecEma: recordMetrics called on one method with response times that    *)
(* include 0.                                                              *)
(***************************************************************************)
MaxTimedRecordings == 4

\* The response times recorded, in milliseconds: Date.now() - startTime is 0
\* for an attempt that ends within the millisecond it started in
SampleTimes == {0, 10, 20}

\* alpha = 0.1 as the fraction AlphaNum / AlphaDen
AlphaNum == 1
AlphaDen == 10

\* recordMetrics, the response-time part: an average of 0 is taken for "no
\* value yet" and replaced by the recorded time
updateAverage(average, responseTime) ==
  IF average[1] = 0
  THEN <<responseTime, 1>>
  ELSE <<AlphaNum * responseTime * average[2] + (AlphaDen - AlphaNum) * average[1],
         AlphaDen * average[2]>>

\* getSuccessRate: a percentage as a fraction, 0 without attempts
getSuccessRate(mm) ==
  IF mm.totalAttempts = 0 THEN <<0, 1>> ELSE <<mm.successfulAttempts * 100, mm.totalAttempts>>

\* method.recordMetrics(success, responseTime)
RecordMetrics(m, success, responseTime) ==
  /\ Len(recordedTimes[m]) < MaxTimedRecordings
  /\ methodMetrics' = [methodMetrics EXCEPT ![m] = recordMetrics(@, success)]
  /\ averageResponseTime' = [averageResponseTime EXCEPT ![m] = updateAverage(@, responseTime)]
  /\ recordedTimes' = [recordedTimes EXCEPT ![m] = Append(@, responseTime)]
  /\ UNCHANGED <<clockVars, methods, config, healthStatus, storeVars, serviceVars, callVars,
                 selected, generation, timerVars, cleanupCalls, cleaning, raised,
                 cleanupsInARow, initialized, registrations, batch, attemptLog>>

InitEma == InitWith(<<"A">>, {})

NextEma == \E success \in BOOLEAN, responseTime \in SampleTimes :
             RecordMetrics("A", success, responseTime)

SpecEma == InitEma /\ [][NextEma]_vars

(***************************************************************************)
(* SpecChance: bypassPaywall calls, two of them in flight at a time, on a  *)
(* service whose only method has failed nine times for the domain.         *)
(***************************************************************************)
WarmFailures == 9
MaxChanceCalls == 4
MaxChanceTicks == 2

\* The service after n sequential bypassPaywall calls for url, RateLimitMax
\* of them in each minute, the attempt of method returning a failure at once
\* in each: what checkRateLimit, recordAttempt, recordMetrics and
\* updateDomainStrategy have left
AfterFailures(url, method, n) ==
  LET domain == extractDomain(url)
      TimeOf(i) == ((i - 1) \div RateLimitMax) * MinuteMs
      after[i \in 0..n] ==
        IF i = 0
        THEN [store |-> EmptyStore, strategy |-> NoStrategy, methodMetrics |-> NewMethodMetrics,
              requestCounts |-> <<>>, passLog |-> <<>>]
        ELSE LET before == after[i - 1]
                 recorded == recordAttempt(before.store, url, method, FALSE, 0)
             IN [store |-> recorded,
                 strategy |-> updateDomainStrategy(before.strategy, recorded, domain, method,
                                                   FALSE),
                 methodMetrics |-> recordMetrics(before.methodMetrics, FALSE),
                 requestCounts |-> checkRateLimit(before.requestCounts, url,
                                                  TimeOf(i)).requestCounts,
                 passLog |-> Append(before.passLog, <<url, TimeOf(i)>>)]
  IN after[n]

InitChance ==
  LET warm == AfterFailures(StrategyUrl, "A", WarmFailures)
      minutes == (WarmFailures + RateLimitMax - 1) \div RateLimitMax
  IN /\ now = minutes * MinuteMs
     /\ ticks = minutes * TicksPerMinute
     /\ checks = 0
     /\ methods = <<"A">>
     /\ config = [m \in MethodNames |-> NewConfig(ScenarioPriority(m), TRUE)]
     /\ healthStatus = [m \in MethodNames |-> NewHealthStatus]
     /\ methodMetrics = [m \in MethodNames |->
                           IF m = "A" THEN warm.methodMetrics ELSE NewMethodMetrics]
     /\ metrics = warm.store.metrics
     /\ globalMetrics = warm.store.globalMetrics
     /\ recentAttempts = warm.store.recentAttempts
     /\ requestCounts = warm.requestCounts
     /\ domainStrategies = [d \in Domains |->
                              IF d = extractDomain(StrategyUrl) THEN warm.strategy
                              ELSE NoStrategy]
     /\ calls = [c \in CallIds |-> IdleCall]
     /\ started = WarmFailures
     /\ passLog = warm.passLog
     /\ failedChecks = [m \in MethodNames |-> 0]
     /\ selected = <<>>
     /\ InitLife(methods, TRUE)

NextChance ==
  \/ \E c \in CallIds : StartCall(c, {StrategyUrl}, WarmFailures + MaxChanceCalls)
  \/ \E c \in CallIds : Detect(c)
  \/ \E c \in CallIds : AttemptReturns(c)
  \/ Tick((((WarmFailures + RateLimitMax - 1) \div RateLimitMax) * TicksPerMinute)
            + MaxChanceTicks)

SpecChance == InitChance /\ [][NextChance]_vars

(***************************************************************************)
(* SpecCandidates: getMethodsForDomain over four registered methods, for   *)
(* strategies, health states and recorded histories drawn from bounded     *)
(* sets, so that each of its three branches is taken.                      *)
(***************************************************************************)
\* Four recorded attempts of a method: three successes, or one
GoodProfile == [old |-> 0, oldOk |-> 0, recent |-> 4, recentOk |-> 3, time |-> 100]
PoorProfile == [old |-> 0, oldOk |-> 0, recent |-> 4, recentOk |-> 1, time |-> 200]

\* The store after the attempts of A and then of B on x.com that kind says
\* were made: "none", "good" or "poor" for each
CandidateStore(kind) ==
  LET Recorded(m) ==
        IF kind[m] = "none" THEN EmptyStore
        ELSE ReplayAttempts(EmptyStore,
               HistoryOf(StrategyUrl, m, IF kind[m] = "good" THEN GoodProfile ELSE PoorProfile))
  IN JoinStores(Recorded("A"), Recorded("B"))

InitCandidates ==
  /\ now = 0
  /\ ticks = 0
  /\ checks = 0
  /\ methods = <<"A", "B", "C", "D">>
  /\ config = [m \in MethodNames |-> NewConfig(ScenarioPriority(m), TRUE)]
  /\ \E down \in SUBSET {"B", "D"} :
       /\ healthStatus = [m \in MethodNames |-> IF m \in down THEN Unhealthy ELSE NewHealthStatus]
       /\ failedChecks = [m \in MethodNames |-> IF m \in down THEN UnhealthyThreshold ELSE 0]
  /\ methodMetrics = [m \in MethodNames |-> NewMethodMetrics]
  /\ \E kind \in [{"A", "B"} -> {"none", "good", "poor"}] :
       /\ metrics = CandidateStore(kind).metrics
       /\ globalMetrics = CandidateStore(kind).globalMetrics
       /\ recentAttempts = CandidateStore(kind).recentAttempts
  /\ requestCounts = <<>>
  /\ \E preferred \in Arrangements({"A", "B", "E"}), blacklisted \in Arrangements({"A", "C"}) :
       domainStrategies =
         [d \in Domains |-> IF d = "x.com"
                            THEN [NewStrategy EXCEPT !.preferredMethods = preferred,
                                                     !.blacklistedMethods = blacklisted]
                            ELSE NoStrategy]
  /\ calls = [c \in CallIds |-> IdleCall]
  /\ started = 0
  /\ passLog = <<>>
  /\ selected = <<>>
  /\ InitLife(methods, TRUE)

NextCandidates ==
  \/ \E d \in Domains : SelectForDomain(d)
  \/ \E m \in {"A", "D"} : SetMethodEnabled(m)

SpecCandidates == InitCandidates /\ [][NextCandidates]_vars

(***************************************************************************)
(* SpecConfig: the configuration operations of the registry on two         *)
(* registered methods, with priorities inside and outside 1..10.           *)
(***************************************************************************)
\* The priorities a caller passes: the limits and their outer neighbours
PassedPriorities == {MinPriority - 1, MinPriority, MaxPriority, MaxPriority + 1}

\* A caller runs updateMethodConfig(m, { priority })
UpdateMethodConfig(m) ==
  /\ \E priority \in PassedPriorities : config' = updateMethodConfig(m, "priority", priority)
  /\ UNCHANGED <<lifeVars, clockVars, methods, healthStatus, methodMetrics, storeVars, serviceVars,
                 callVars, selected>>

\* A caller runs updateMethodConfigs({ a: { priority }, b: { enabled } }):
\* updateMethodConfig for each entry in turn
UpdateMethodConfigs(a, b) ==
  /\ \E priority \in PassedPriorities, enabled \in BOOLEAN :
       LET first == updateMethodConfig(a, "priority", priority)
       IN config' = IF getMethod(b) # "null"
                    THEN [first EXCEPT ![b] = updateConfig(@, "enabled", enabled)]
                    ELSE first
  /\ UNCHANGED <<lifeVars, clockVars, methods, healthStatus, methodMetrics, storeVars, serviceVars,
                 callVars, selected>>

InitConfig == InitWith(<<"A", "B">>, {})

NextConfig ==
  \/ \E m \in {"A", "B", "C"} : SetMethodPriority(m)
  \/ \E m \in {"A", "B", "C"} : UpdateMethodConfig(m)
  \/ UpdateMethodConfigs("A", "B")
  \/ SelectByPriority

SpecConfig == InitConfig /\ [][NextConfig]_vars

(***************************************************************************)
(* SpecPurge: calls for one URL on the service as constructed, over more   *)
(* minutes than checkRateLimit keeps buckets for.                          *)
(***************************************************************************)
MaxPurgeCalls == 8
MaxPurgeMinutes == 7

\* Date.now() advances by a minute
MinutePasses(maxMinutes) ==
  /\ ticks < maxMinutes * TicksPerMinute
  /\ now' = now + MinuteMs
  /\ ticks' = ticks + TicksPerMinute
  /\ UNCHANGED <<lifeVars, checks, registryVars, storeVars, serviceVars, callVars, selected>>

InitPurge == InitWith(<<>>, {})

NextPurge ==
  \/ StartCall(1, {StrategyUrl}, MaxPurgeCalls)
  \/ Detect(1)
  \/ MinutePasses(MaxPurgeMinutes)

SpecPurge == InitPurge /\ [][NextPurge]_vars

(***************************************************************************)
(* SpecConcurrent: bypassPaywall calls for one normalized URL, two of them *)
(* in flight at a time and interleaving at their await points.             *)
(***************************************************************************)
MaxConcurrentCalls == 5
MaxConcurrentTicks == 2

InitConcurrent == InitWith(<<"A">>, {})

NextConcurrent ==
  \/ \E c \in CallIds : StartCall(c, RateUrls, MaxConcurrentCalls)
  \/ \E c \in CallIds : Detect(c)
  \/ \E c \in CallIds : AttemptReturns(c)
  \/ Tick(MaxConcurrentTicks)

SpecConcurrent == InitConcurrent /\ [][NextConcurrent]_vars

(***************************************************************************)
(* Properties.                                                             *)
(***************************************************************************)
\* The records a call passed to recordAttempt are the newest of the ring buffer
\* (calls are sequential in Spec and SpecRate)
LogStored(call) ==
  /\ Len(call.log) <= Len(recentAttempts)
  /\ SubSeq(recentAttempts, Len(recentAttempts) - Len(call.log) + 1, Len(recentAttempts))
       = call.log

\* C1: within one bypassPaywall call the candidates are attempted one at a time
\* in candidate-list order, each at most once; the call stops at the first
\* success: no later candidate is attempted, every earlier candidate was
\* attempted and recorded as a failure, and the returned method is the first
\* succeeding candidate.
C1_FirstSuccessStops ==
  \A c \in CallIds :
    LET call == calls[c]
        n == Len(call.outcomes)
    IN /\ Len(call.log) = n
       /\ n <= Len(call.methods)
       /\ Cardinality(Range(call.methods)) = Len(call.methods)
       /\ call.pc = "attempting" => call.index = n + 1
       /\ \A i \in 1..n : call.log[i].method = call.methods[i]
       /\ \A i \in 1..n : call.log[i].success <=> call.outcomes[i] = "ok"
       /\ \A i \in 1..n :
            call.outcomes[i] = "ok" =>
              /\ i = n
              /\ call.pc = "done"
              /\ call.result.success
              /\ call.result.method = call.methods[i]
       /\ call.result.success => n >= 1 /\ call.outcomes[n] = "ok"
       /\ LogStored(call)

C1_Witness ==
  /\ calls[1].pc = "done"
  /\ calls[1].result.success
  /\ calls[1].outcomes = <<"fail", "ok">>
  /\ Len(calls[1].methods) = 3
  /\ calls[1].result.method = calls[1].methods[2]

\* C2: once every candidate of a call has failed (a failed result or a throw)
\* the call has returned success=false with the all-methods-failed error and
\* attemptedMethods equal to the candidate list in the order tried, and the
\* metrics store holds exactly one failure record per candidate; the error is
\* returned in no other case.
C2_AllFailed ==
  \A c \in CallIds :
    LET call == calls[c]
        exhausted == /\ Len(call.methods) > 0
                     /\ Len(call.outcomes) = Len(call.methods)
                     /\ \A i \in 1..Len(call.outcomes) : call.outcomes[i] # "ok"
    IN /\ exhausted =>
            /\ call.pc = "done"
            /\ ~call.result.success
            /\ call.result.error = "All bypass methods failed"
            /\ call.result.attemptedMethods = call.methods
            /\ Len(call.log) = Len(call.methods)
            /\ \A i \in 1..Len(call.log) :
                 call.log[i].method = call.methods[i] /\ ~call.log[i].success
            /\ LogStored(call)
       /\ call.result.error = "All bypass methods failed" => exhausted

C2_Witness ==
  /\ calls[1].pc = "done"
  /\ calls[1].outcomes = <<"fail", "throw", "fail">>
  /\ calls[1].result.error = "All bypass methods failed"
  /\ calls[1].result.attemptedMethods = <<"C", "A", "B">>

\* C3: a candidate's attempt that throws does not end the call: a failed attempt
\* with response time 0 is recorded in the metrics store for that method, the
\* next candidate is attempted, and a later candidate's success is returned.
C3_ThrowIsRecordedAndSkipped ==
  \A c \in CallIds :
    LET call == calls[c]
        n == Len(call.outcomes)
    IN \A i \in 1..n :
         call.outcomes[i] = "throw" =>
           /\ call.log[i] = [url |-> call.url, domain |-> call.domain,
                             method |-> call.methods[i], success |-> FALSE,
                             responseTime |-> 0]
           /\ LogStored(call)
           /\ i < Len(call.methods) =>
                \/ n > i
                \/ call.pc = "attempting" /\ call.index = i + 1
           /\ i = Len(call.methods) =>
                call.pc = "done" /\ call.result.error = "All bypass methods failed"
           /\ \A j \in (i + 1)..n :
                call.outcomes[j] = "ok" =>
                  call.pc = "done" /\ call.result.success
                    /\ call.result.method = call.methods[j]

C3_Witness ==
  /\ calls[1].pc = "done"
  /\ calls[1].outcomes = <<"throw", "ok">>
  /\ calls[1].result.success
  /\ calls[1].result.method = calls[1].methods[2]
  /\ calls[1].log[1].responseTime = 0
  /\ calls[1].log[2].responseTime = TickMs
  /\ Len(recentAttempts) = 2


\* The calls for a URL that passed checkRateLimit in a minute bucket, and in the
\* 60 seconds from time t on
PassesInBucket(url, minute) ==
  Cardinality({i \in 1..Len(passLog) :
                 passLog[i][1] = url /\ passLog[i][2] \div MinuteMs = minute})

RollingPasses(url, t) ==
  Cardinality({i \in 1..Len(passLog) :
                 passLog[i][1] = url /\ t <= passLog[i][2] /\ passLog[i][2] < t + MinuteMs})

\* C4: for one normalized URL and one minute bucket, a call for a paywalled URL
\* passes checkRateLimit and goes on to method selection and the first attempt
\* when fewer than 3 calls have passed in that bucket, and returns the
\* rate-limit error, attempting nothing, when 3 have; the count starts anew in
\* the next bucket.
C4_ThreePerBucket ==
  [][\A c \in CallIds :
       (calls[c].pc = "detecting" /\ calls'[c].pc # "detecting"
          /\ calls'[c].result.error \notin {"URL is not paywalled", "classifier error"}) =>
         LET before == PassesInBucket(calls[c].url, now \div MinuteMs)
         IN /\ before < RateLimitMax =>
                 /\ calls'[c].passed
                 /\ calls'[c].pc = "attempting"
                 /\ calls'[c].methods = <<"A">>
                 /\ passLog' = Append(passLog, <<calls[c].url, now>>)
            /\ before >= RateLimitMax =>
                 /\ calls'[c] = Return(calls[c], Failure("Rate limit exceeded"))
                 /\ passLog' = passLog]_vars

C4_Witness ==
  /\ calls[1].result = Failure("Rate limit exceeded")
  /\ PassesInBucket(calls[1].url, 0) = RateLimitMax
  /\ now = TickMs * (TicksPerMinute - 1)
  /\ \E i \in 1..Len(passLog) : passLog[i][2] = 0

\* C5 as claimed: in any rolling 60-second interval at most 3 calls for the same
\* normalized URL pass the rate-limit check.
C5_RollingWindow ==
  \A i \in 1..Len(passLog) : RollingPasses(passLog[i][1], passLog[i][2]) <= RateLimitMax

\* C5 amended: at most 3 calls for the same normalized URL pass the rate-limit
\* check in one minute bucket (a 60-second interval aligned to a minute
\* boundary); a rolling 60-second interval overlaps two buckets and holds at
\* most 6 passes.
C5_BucketWindow ==
  \A i \in 1..Len(passLog) :
    /\ PassesInBucket(passLog[i][1], passLog[i][2] \div MinuteMs) <= RateLimitMax
    /\ RollingPasses(passLog[i][1], passLog[i][2]) <= 2 * RateLimitMax

C5_Witness ==
  \E i \in 1..Len(passLog) :
    /\ passLog[i][2] = TickMs * (TicksPerMinute - 1)
    /\ RollingPasses(passLog[i][1], passLog[i][2]) = 2 * RateLimitMax

\* C6 as claimed: in every reachable state no method name is in both
\* preferredMethods and blacklistedMethods of a domain.
C6_PreferredNotBlacklisted ==
  \A d \in Domains :
    Range(domainStrategies[d].preferredMethods)
      \cap Range(domainStrategies[d].blacklistedMethods) = {}

\* C8 as claimed: a method with 3 consecutive failed attempts made through
\* bypassPaywall is unhealthy, unavailable and absent from getMethodsForDomain,
\* and a successful attempt leaves its health consecutiveFailures at 0.
C8_AttemptsDriveHealth ==
  \A m \in Range(methods) :
    MapHas(globalMetrics, m) =>
      /\ MapGet(globalMetrics, m).consecutiveFailures >= UnhealthyThreshold =>
           /\ ~healthStatus[m].healthy
           /\ ~isAvailable(m)
           /\ \A d \in Domains : ~Includes(getMethodsForDomain(d), m)
      /\ MapGet(globalMetrics, m).consecutiveFailures = 0 =>
           healthStatus[m].consecutiveFailures = 0


C10_PreferredThenPriority ==
  \A d \in Domains :
    LET strategy == domainStrategies[d]
        result == getMethodsForDomain(d)
        preferred == {name \in Range(strategy.preferredMethods) :
                        /\ Includes(methods, name)
                        /\ isAvailable(name)
                        /\ ~Includes(strategy.blacklistedMethods, name)}
        others == {name \in Range(methods) :
                     /\ isAvailable(name)
                     /\ ~Includes(strategy.preferredMethods, name)
                     /\ ~Includes(strategy.blacklistedMethods, name)}
        k == Cardinality(preferred)
    IN (strategy.exists /\ Len(strategy.preferredMethods) > 0) =>
         /\ Len(result) = k + Cardinality(others)
         /\ {result[i] : i \in 1..k} = preferred
         /\ {result[i] : i \in (k + 1)..Len(result)} = others
         /\ \A i, j \in 1..k :
              i < j => IndexOf(strategy.preferredMethods, result[i])
                         < IndexOf(strategy.preferredMethods, result[j])
         /\ \A i, j \in (k + 1)..Len(result) :
              i < j => config[result[i]].priority >= config[result[j]].priority
         /\ (/\ strategy.preferredMethods = <<"A", "B">>
             /\ strategy.blacklistedMethods = <<"C">>
             /\ \A m \in Range(methods) : isAvailable(m)
             /\ \A m \in Range(methods) : config[m].priority = ScenarioPriority(m))
              => result = <<"A", "B", "D">>

C10_Witness ==
  /\ domainStrategies["x.com"].preferredMethods = <<"A", "B">>
  /\ domainStrategies["x.com"].blacklistedMethods = <<"C">>
  /\ \A m \in Range(methods) : isAvailable(m)
  /\ selected = <<"A", "B", "D">>
  /\ selected = getMethodsForDomain("x.com")


\* The aggregate the metrics store holds for a method on a domain
HasAggregate(domain, method) == MapHas(metrics[domain], method)
Aggregate(domain, method) == MapGet(metrics[domain], method)

\* The second branch of getMethodsForDomain applies: no preferred list, and
\* some method has at least 3 attempts for the domain
HistoryApplies(domain) ==
  /\ ~(domainStrategies[domain].exists /\ Len(domainStrategies[domain].preferredMethods) > 0)
  /\ \E m \in MethodNames :
       HasAggregate(domain, m) /\ Aggregate(domain, m).totalAttempts >= BestMinAttempts

\* A method with at least 3 attempts and a recent success rate above 50
GoodOn(domain, method) ==
  /\ HasAggregate(domain, method)
  /\ Aggregate(domain, method).totalAttempts >= BestMinAttempts
  /\ FracGreater(Aggregate(domain, method).recentSuccessRate, GoodRecentRate)

\* The available good methods of a domain
GoodAvailable(domain) == {m \in Range(methods) : isAvailable(m) /\ GoodOn(domain, m)}

\* The result of getMethodsForDomain holds the available good methods first,
\* then the other available methods by priority descending
HistoryShape(domain) ==
  LET result == getMethodsForDomain(domain)
      good == GoodAvailable(domain)
      others == {m \in Range(methods) : isAvailable(m) /\ ~GoodOn(domain, m)}
      k == Cardinality(good)
  IN /\ Len(result) = k + Cardinality(others)
     /\ {result[i] : i \in 1..k} = good
     /\ {result[i] : i \in (k + 1)..Len(result)} = others
     /\ \A i, j \in (k + 1)..Len(result) :
          i < j => config[result[i]].priority >= config[result[j]].priority

\* The part of the result that holds the good methods
GoodPrefix(domain) ==
  SubSeq(getMethodsForDomain(domain), 1, Cardinality(GoodAvailable(domain)))

C12_PriorityFallback ==
  \A d \in Domains :
    LET result == getMethodsForDomain(d)
    IN (/\ ~(domainStrategies[d].exists /\ Len(domainStrategies[d].preferredMethods) > 0)
        /\ \A m \in MethodNames :
             HasAggregate(d, m) => Aggregate(d, m).totalAttempts < BestMinAttempts)
         => /\ result = getMethodsByPriority(TRUE)
            /\ Range(result) = {m \in Range(methods) : isAvailable(m)}
            /\ Len(result) = Cardinality(Range(result))
            /\ \A i, j \in 1..Len(result) :
                 i < j => config[result[i]].priority >= config[result[j]].priority

\* After a restart A has two successes on record and C two failures, one short
\* of a history: the order is that of the priorities
C12_Witness ==
  /\ ~domainStrategies["x.com"].exists
  /\ HasAggregate("x.com", "A")
  /\ Aggregate("x.com", "A").successfulAttempts = BestMinAttempts - 1
  /\ HasAggregate("x.com", "C")
  /\ Aggregate("x.com", "C").failedAttempts = BestMinAttempts - 1
  /\ selected = <<"C", "A", "B">>
  /\ selected = getMethodsForDomain("x.com")


\* C13: an updateDomainStrategy call leaves the domain's strategy existing with
\* totalAttempts one higher (1 on first touch); on success successfulAttempts
\* is one higher and the method stands at index 0 of preferredMethods, the
\* other preferred methods keeping their order; on failure preferredMethods and
\* successfulAttempts are as before.  successfulAttempts <= totalAttempts in
\* every state.
C13_StrategyUpdate ==
  /\ [][recentAttempts' # recentAttempts =>
          LET attempt == recentAttempts'[Len(recentAttempts')]
              before == domainStrategies[attempt.domain]
              after == domainStrategies'[attempt.domain]
              Other(name) == name # attempt.method
          IN /\ after.exists
             /\ after.totalAttempts = before.totalAttempts + 1
             /\ ~before.exists => before.totalAttempts = 0
             /\ attempt.success =>
                  /\ after.successfulAttempts = before.successfulAttempts + 1
                  /\ after.preferredMethods
                       = <<attempt.method>> \o SelectSeq(before.preferredMethods, Other)
             /\ ~attempt.success =>
                  /\ after.successfulAttempts = before.successfulAttempts
                  /\ after.preferredMethods = before.preferredMethods]_vars
  /\ [](\A d \in Domains :
          domainStrategies[d].successfulAttempts <= domainStrategies[d].totalAttempts)

\* A, B and C succeeded in turn and then A again: A is back in front, C and B
\* keep their order
C13_Witness ==
  /\ domainStrategies["x.com"].preferredMethods = <<"A", "C", "B">>
  /\ domainStrategies["x.com"].successfulAttempts = 4
  /\ domainStrategies["x.com"].totalAttempts = 4
  /\ ~domainStrategies["y.com"].exists


\* At least 10 attempts on record for the method on the domain, with a lifetime
\* and a recent-window failure rate of at least 90%
Qualifies(log, domain, method) ==
  LET Mine(a) == a.domain = domain /\ a.method = method
      Failed(a) == ~a.success
      mine == SelectSeq(log, Mine)
      recent == SubSeq(mine, IF Len(mine) > RecentWindow THEN Len(mine) - RecentWindow + 1 ELSE 1,
                       Len(mine))
  IN /\ Len(mine) >= BlacklistMinAttempts
     /\ Len(SelectSeq(mine, Failed)) * 100 >= BlacklistMaxFailureRate * Len(mine)
     /\ Len(SelectSeq(recent, Failed)) * 100 >= BlacklistMaxFailureRate * Len(recent)

C15_EveryAttemptLearned ==
  \A d \in Domains :
    domainStrategies[d].totalAttempts
      = Cardinality({i \in 1..Len(recentAttempts) : recentAttempts[i].domain = d})


\* C16: when the classifier says the URL is not paywalled, bypassPaywall
\* returns success=false with the not-paywalled error, having attempted
\* nothing, and the counter map, the metrics store, the domain strategies and
\* every method are as they were; the counter map only ever counts calls that
\* passed the rate-limit check.
C16_NotPaywalledTouchesNothing ==
  /\ [][\A c \in CallIds :
          (calls[c].pc = "detecting" /\ calls'[c].result.error = "URL is not paywalled") =>
            /\ calls'[c].pc = "done"
            /\ ~calls'[c].result.success
            /\ ~calls'[c].passed
            /\ calls'[c].outcomes = <<>>
            /\ calls'[c].log = <<>>
            /\ requestCounts' = requestCounts
            /\ <<metrics, globalMetrics, recentAttempts>>' = <<metrics, globalMetrics, recentAttempts>>
            /\ domainStrategies' = domainStrategies
            /\ <<methods, config, healthStatus, methodMetrics>>'
                 = <<methods, config, healthStatus, methodMetrics>>]_vars
  /\ [](\A key \in DOMAIN requestCounts : requestCounts[key] = PassesInBucket(key[1], key[2]))

\* A second call for a URL that has been counted once is found not paywalled
C16_Witness ==
  /\ calls[1].pc = "done"
  /\ calls[1].result = Failure("URL is not paywalled")
  /\ started = 2
  /\ requestCounts = [key \in {<<calls[1].url, 0>>} |-> 1]
  /\ Len(recentAttempts) > 0

\* C17: a bypassPaywall call always returns a result: a call that has ended
\* carries success=true with the method whose attempt returned success in that
\* call, or success=false with an error; a rejection of the classifier and a
\* throw of a method end in such a result or in the next candidate.
C17_AlwaysAResult ==
  \A c \in CallIds :
    LET call == calls[c]
        n == Len(call.outcomes)
    IN /\ call.pc \in {"idle", "detecting", "attempting", "done"}
       /\ call.pc # "done" => call.result = NoResult
       /\ call.pc = "done" =>
            /\ call.result.success \in BOOLEAN
            /\ call.result.success =>
                 /\ n >= 1
                 /\ call.outcomes[n] = "ok"
                 /\ call.result.method = call.methods[n]
                 /\ call.result.error = ""
            /\ ~call.result.success =>
                 /\ call.result.error \in {"URL is not paywalled", "classifier error",
                                           "Rate limit exceeded", "No available bypass methods",
                                           "All bypass methods failed"}
                 /\ \A i \in 1..n : call.outcomes[i] # "ok"
       /\ call.pc = "detecting" => ENABLED Detect(c)
       /\ call.pc = "attempting" => ENABLED AttemptReturns(c)

\* Every method of a call threw, and the classifier rejected in the call after
C17_Witness ==
  /\ calls[1].pc = "done"
  /\ calls[1].result = Failure("classifier error")
  /\ Len(recentAttempts) = 3
  /\ \A i \in 1..3 : ~recentAttempts[i].success /\ recentAttempts[i].responseTime = 0
  /\ \A d \in Domains : ~domainStrategies[d].exists


\* The sum of the values of a function with a finite domain
RECURSIVE SumOf(_)
SumOf(f) ==
  IF DOMAIN f = {} THEN 0
  ELSE LET x == CHOOSE y \in DOMAIN f : TRUE
       IN f[x] + SumOf([y \in (DOMAIN f) \ {x} |-> f[y]])

\* Every aggregate of the store with the attempts recorded for it, oldest
\* first: one per domain and method, one per method over all domains
AggregatesWithAttempts ==
  {<<Aggregate(d, m),
     SelectSeq(recentAttempts, LAMBDA a : a.domain = d /\ a.method = m)>> :
       <<d, m>> \in {p \in Domains \X MethodNames : HasAggregate(p[1], p[2])}}
  \cup
  {<<MapGet(globalMetrics, m), SelectSeq(recentAttempts, LAMBDA a : a.method = m)>> :
       m \in {n \in MethodNames : MapHas(globalMetrics, n)}}

\* C18: for each method the global totalAttempts, successfulAttempts and
\* failedAttempts are the sums of these counters over the domains, a method has
\* a global aggregate exactly when it has one for some domain, and in every
\* aggregate totalAttempts = successfulAttempts + failedAttempts.
C18_GlobalIsSumOfDomains ==
  /\ \A m \in MethodNames :
       LET Of(d) == IF HasAggregate(d, m) THEN Aggregate(d, m) ELSE createEmptyMetrics
           global == MapGet(globalMetrics, m)
       IN /\ MapHas(globalMetrics, m) <=> \E d \in Domains : HasAggregate(d, m)
          /\ MapHas(globalMetrics, m) =>
               /\ global.totalAttempts = SumOf([d \in Domains |-> Of(d).totalAttempts])
               /\ global.successfulAttempts = SumOf([d \in Domains |-> Of(d).successfulAttempts])
               /\ global.failedAttempts = SumOf([d \in Domains |-> Of(d).failedAttempts])
  /\ \A p \in AggregatesWithAttempts :
       /\ p[1].totalAttempts = p[1].successfulAttempts + p[1].failedAttempts
       /\ p[1].totalAttempts = Len(p[2])

\* A has failed on both domains and succeeded on one of them
C18_Witness ==
  /\ HasAggregate("x.com", "A")
  /\ HasAggregate("y.com", "A")
  /\ Aggregate("x.com", "A").failedAttempts = 3
  /\ Aggregate("y.com", "A").failedAttempts = 1
  /\ Aggregate("y.com", "A").successfulAttempts = 1
  /\ MapGet(globalMetrics, "A").totalAttempts = 5
  /\ MapGet(globalMetrics, "A").failedAttempts = 4

\* C19: in every aggregate the recency window holds at most 20 entries, it is
\* the last min(n, 20) of the n attempts recorded for the aggregate, in order,
\* and recentSuccessRate is 100 * (successes in the window) / (window size).
C19_RecencyWindow ==
  \A p \in AggregatesWithAttempts :
    LET window == p[1].recentAttempts
        attempts == p[2]
        n == Len(attempts)
        size == IF n < RecentWindow THEN n ELSE RecentWindow
        successes == Cardinality({i \in 1..Len(window) : window[i].success})
    IN /\ Len(window) <= RecentWindow
       /\ Len(window) = size
       /\ \A i \in 1..size : window[i].success = attempts[n - size + i].success
       /\ p[1].recentSuccessRate[2] = size
       /\ p[1].recentSuccessRate[1] = 100 * successes

\* A success of A on x.com has left the window after 20 later failures: the
\* recent success rate is 0 while the success still counts in the lifetime
C19_Witness ==
  /\ HasAggregate("x.com", "A")
  /\ Aggregate("x.com", "A").totalAttempts > RecentWindow
  /\ Aggregate("x.com", "A").successfulAttempts = 1
  /\ Len(Aggregate("x.com", "A").recentAttempts) = RecentWindow
  /\ Aggregate("x.com", "A").recentSuccessRate = <<0, RecentWindow>>

\* The length of the run of failures at the end of a sequence of attempts
RECURSIVE FailureRun(_)
FailureRun(attempts) ==
  IF attempts = <<>> \/ attempts[Len(attempts)].success THEN 0
  ELSE 1 + FailureRun(SubSeq(attempts, 1, Len(attempts) - 1))

\* C20: in every aggregate consecutiveFailures is the length of the run of
\* failures at the end of the attempts recorded for it; a failure followed by
\* a success gives totalAttempts 2, failedAttempts 1, successfulAttempts 1,
\* consecutiveFailures 0 and a recent success rate of 50.
C20_ConsecutiveFailures ==
  \A p \in AggregatesWithAttempts :
    /\ p[1].consecutiveFailures = FailureRun(p[2])
    /\ (Len(p[2]) = 2 /\ ~p[2][1].success /\ p[2][2].success) =>
         /\ p[1].totalAttempts = 2
         /\ p[1].failedAttempts = 1
         /\ p[1].successfulAttempts = 1
         /\ p[1].consecutiveFailures = 0
         /\ p[1].recentSuccessRate[1] = 50 * p[1].recentSuccessRate[2]

\* B failed and then succeeded on y.com
C20_Witness ==
  /\ HasAggregate("y.com", "B")
  /\ SelectSeq(recentAttempts, LAMBDA a : a.method = "B")
       = <<[url |-> OtherUrl, domain |-> "y.com", method |-> "B", success |-> FALSE,
            responseTime |-> 100],
           [url |-> OtherUrl, domain |-> "y.com", method |-> "B", success |-> TRUE,
            responseTime |-> 100]>>
  /\ Aggregate("y.com", "B").consecutiveFailures = 0
  /\ Aggregate("y.com", "B").recentSuccessRate = <<100, 2>>


C22_BestSortedByRecentRate ==
  \A d \in Domains, minAttempts \in {BestMinAttempts, DefaultMinAttempts} :
    LET best == getBestMethodsForDomain(Store, d, minAttempts)
    IN /\ {best[i].method : i \in 1..Len(best)}
            = {m \in MethodNames :
                 HasAggregate(d, m) /\ Aggregate(d, m).totalAttempts >= minAttempts}
       /\ \A i, j \in 1..Len(best) : i # j => best[i].method # best[j].method
       /\ \A i, j \in 1..Len(best) :
            (/\ FracAbsGreater(best[i].recentSuccessRate, best[j].recentSuccessRate, 10)
             /\ FracDiff(best[i].recentSuccessRate, best[j].recentSuccessRate)[1] > 0)
              => i < j

(***************************************************************************)
(* The registry's life.                                                    *)
(***************************************************************************)
NoDuplicates(s) == \A i, j \in 1..Len(s) : i # j => s[i] # s[j]

\* C23: register(method) throws and leaves the registry as it was when the
\* object is not a BypassMethod; for a BypassMethod it returns, the registry
\* holds the new object under its name, a name already registered keeps its
\* place and the size does not grow, and no name is ever held twice.
C23_RegisterContract ==
  [][\A method \in Candidates :
       RegisterObject(method) =>
         /\ NoDuplicates(methods')
         /\ IF ~method.instance
            THEN /\ raised' # ""
                 /\ UNCHANGED <<methods, config, healthStatus, methodMetrics, generation>>
            ELSE /\ raised' = ""
                 /\ Includes(methods', method.name)
                 /\ config'[method.name] = NewConfig(method.priority, method.testUrl)
                 /\ healthStatus'[method.name] = NewHealthStatus
                 /\ methodMetrics'[method.name] = NewMethodMetrics
                 /\ \A m \in MethodNames \ {method.name} :
                      /\ Includes(methods', m) <=> Includes(methods, m)
                      /\ config'[m] = config[m]
                 /\ Includes(methods, method.name) => methods' = methods
                 /\ ~Includes(methods, method.name) => Len(methods') = Len(methods) + 1]_vars

\* A rejected object has just left a registry alone in which A was replaced
\* in its place before B
C23_Witness ==
  /\ raised # ""
  /\ methods = <<"A", "B">>
  /\ generation["A"] = 2
  /\ generation["B"] = 1
  /\ cleanupCalls["A"] = 0

\* A run of performHealthChecks returns in this step
Returns(r) ==
  /\ r \in 1..Len(runs')
  /\ runs'[r].pending = {}
  /\ r \in 1..Len(runs) => runs[r].pending # {}

\* C24: performHealthChecks does not reject and isolates failures: what it
\* returns has one result for each method registered when it was called,
\* totalMethods is their number, healthyMethods counts the healthy results
\* and is at most totalMethods, a check that threw is reported as
\* {healthy: false, error}, and while a run waits every pending check can
\* still settle, whatever the others did.
C24_HealthChecksIsolated ==
  /\ [][\A r \in 1..MaxRuns :
          Returns(r) =>
            /\ raised' = "" \/ raised' = raised
            /\ report'.totalMethods = Len(runs'[r].methods)
            /\ Len(report'.results) = Len(runs'[r].methods)
            /\ {report'.results[i].key : i \in 1..Len(report'.results)} = Range(runs'[r].methods)
            /\ report'.healthyMethods =
                 Cardinality({i \in 1..Len(report'.results) : report'.results[i].val.healthy})
            /\ report'.healthyMethods <= report'.totalMethods
            /\ \A i \in 1..Len(report'.results) :
                 report'.results[i].val.error # "" => ~report'.results[i].val.healthy]_vars
  /\ [](\A r \in 1..Len(runs) : \A m \in runs[r].pending : ENABLED CheckSettles(r, m))

\* A run over A and B has returned: the check of one threw, the other is
\* reported healthy
C24_Witness ==
  /\ Len(runs) = 1
  /\ runs[1].pending = {}
  /\ report.totalMethods = 2
  /\ report.healthyMethods = 1
  /\ \E i \in 1..2 : report.results[i].val.error # ""

C26_CleanupAwaitsChecks ==
  [][(cleaning = "none" /\ cleaning' # "none") =>
       \A m \in Range(methods) :
         ~\E r \in 1..Len(runs) :
            /\ runs[r].source = "timer"
            /\ m \in runs[r].pending
            /\ StillRegistered(runs[r], m)]_vars

\* The timers the runtime has not cleared
ActiveIntervals == {t \in 1..Len(intervals) : intervals[t]}

\* C27: at most one timer of the registry is active, and it is the one the
\* registry holds; a periodic run of performHealthChecks starts only while
\* the registry holds a timer, so none starts between stopHealthChecks and
\* the next startHealthChecks.
C27_OneTimer ==
  /\ [](/\ Cardinality(ActiveIntervals) <= 1
        /\ ActiveIntervals \subseteq {healthCheckInterval})
  /\ [][(Len(runs') > Len(runs) /\ runs'[Len(runs')].source = "timer") =>
          healthCheckInterval \in ActiveIntervals]_vars

\* startHealthChecks was called while a timer was active: the first timer is
\* cleared, the second has fired
C27_Witness ==
  /\ intervals = <<FALSE, TRUE>>
  /\ healthCheckInterval = 2
  /\ Len(runs) = 1
  /\ runs[1].source = "timer"

RECURSIVE Successful(_, _)
Successful(urls, outcomes) ==
  IF outcomes = <<>> THEN <<>>
  ELSE LET n == Len(outcomes)
           before == Successful(urls, SubSeq(outcomes, 1, n - 1))
       IN IF outcomes[n].result.success
          THEN Append(before, [originalUrl |-> urls[n], result |-> outcomes[n].result])
          ELSE before

\* C28: processUrls calls bypassPaywall for the URLs one at a time in input
\* order, holds exactly the successful results so far, in input order, each
\* with its originalUrl, and returns only after the last URL's call,
\* whatever the earlier calls returned.
C28_BatchCollectsSuccesses ==
  batch.state # "idle" =>
    /\ Len(batch.outcomes) <= Len(batch.urls)
    /\ \A i \in 1..Len(batch.outcomes) : batch.outcomes[i].url = normalizeUrl(batch.urls[i])
    /\ batch.results = Successful(batch.urls, batch.outcomes)
    /\ batch.state = "running" =>
         /\ batch.index = Len(batch.outcomes) + 1
         /\ calls[1].url = normalizeUrl(batch.urls[batch.index])
         /\ started = batch.index
    /\ batch.state = "returned" =>
         /\ Len(batch.outcomes) = Len(batch.urls)
         /\ started = Len(batch.urls)

\* Three URLs were processed: the first call succeeded, the second ended in
\* an exception caught inside bypassPaywall, the third succeeded
C28_Witness ==
  /\ batch.state = "returned"
  /\ Len(batch.urls) = 3
  /\ batch.outcomes[1].result.success
  /\ batch.outcomes[2].result.error = "classifier error"
  /\ batch.outcomes[3].result.success
  /\ Len(batch.results) = 2
  /\ batch.results[2].originalUrl = batch.urls[3]
  /\ batch.urls[3] # normalizeUrl(batch.urls[3])

(***************************************************************************)
(* The ring buffer.                                                        *)
(***************************************************************************)
\* C30: the ring buffer holds at most 1,000 records, and they are the last
\* min(n, 1000) of the n attempts recorded, in the order of recording.
C30_RingBuffer ==
  LET n == Len(attemptLog)
  IN /\ Len(recentAttempts) = MathMin(n, MaxRecentAttempts)
     /\ Len(recentAttempts) <= MaxRecentAttempts
     /\ recentAttempts = SubSeq(attemptLog, n - Len(recentAttempts) + 1, n)

\* 1,003 attempts were recorded: the first, a failure, is gone, and the last,
\* a failure, is the newest record
C30_Witness ==
  /\ Len(attemptLog) = MaxRecentAttempts + 3
  /\ ~attemptLog[1].success
  /\ ~attemptLog[Len(attemptLog)].success
  /\ Len(recentAttempts) = MaxRecentAttempts
  /\ recentAttempts[1] = attemptLog[4]
  /\ recentAttempts[MaxRecentAttempts] = attemptLog[Len(attemptLog)]

\* C31: the first response time recorded becomes averageResponseTime, every
\* later recording with time t sets it to 0.1*t + 0.9*previous average, also
\* when the previous average or t is 0; the success rate is the share of
\* successful attempts (as a percentage), 0 without attempts.
C31_ExponentialAverage ==
  [][\A m \in MethodNames :
       recordedTimes'[m] # recordedTimes[m] =>
         LET t == recordedTimes'[m][Len(recordedTimes'[m])]
             previous == averageResponseTime[m]
             average == averageResponseTime'[m]
             rate == getSuccessRate(methodMetrics'[m])
         IN /\ IF recordedTimes[m] = <<>>
               THEN average[1] = t * average[2]
               ELSE average[1] * (AlphaDen * previous[2]) =
                      (AlphaNum * t * previous[2] + (AlphaDen - AlphaNum) * previous[1])
                        * average[2]
            /\ rate[1] * methodMetrics'[m].totalAttempts =
                 100 * methodMetrics'[m].successfulAttempts * rate[2]]_vars

\* C33: a method in a domain's blacklistedMethods is not in the list
\* getMethodsForDomain returns for the domain, whichever branch builds it.
C33_BlacklistedNeverCandidate ==
  \A d \in Domains : \A m \in MethodNames :
    Includes(domainStrategies[d].blacklistedMethods, m) => ~Includes(getMethodsForDomain(d), m)

\* A method can still be attempted for a domain: a call in flight has it
\* among the candidates it has yet to try, or the domain has no preferred
\* method, so that getMethodsForDomain does not consult the blacklist
ChanceLeft(d, m) ==
  \/ domainStrategies[d].preferredMethods = <<>>
  \/ \E c \in CallIds :
       /\ calls[c].pc = "attempting"
       /\ calls[c].domain = d
       /\ \E i \in calls[c].index..Len(calls[c].methods) : calls[c].methods[i] = m

\* A blacklisted method that can no longer be attempted
ChanceLost(d, m) ==
  Includes(domainStrategies[d].blacklistedMethods, m) /\ ~ChanceLeft(d, m)

\* Once a blacklisted method can no longer be attempted it stays so, and it
\* stays blacklisted, whatever calls follow
LostForGood ==
  [][\A d \in Domains : \A m \in MethodNames : ChanceLost(d, m) => ChanceLost(d, m)']_vars

\* C32: a blacklisted method gets a second chance: whenever a method is in a
\* domain's blacklistedMethods, calls for the domain can still attempt it (and
\* so take it out of blacklistedMethods).
C32_SecondChance ==
  \A d \in Domains : \A m \in MethodNames :
    Includes(domainStrategies[d].blacklistedMethods, m) => ChanceLeft(d, m)

\* C34: in each of its three branches, every method in the list
\* getMethodsForDomain returns is registered and available (enabled and
\* healthy) when the list is built, and no method is in the list twice.
C34_CandidatesUsable ==
  \A d \in Domains :
    LET list == getMethodsForDomain(d)
    IN /\ \A i \in 1..Len(list) : Includes(methods, list[i]) /\ isAvailable(list[i])
       /\ NoDuplicates(list)

\* The second branch has just built a list: no preferred method, a recorded
\* history, and an unhealthy method with a good history left out
C34_Witness ==
  /\ domainStrategies["x.com"].preferredMethods = <<>>
  /\ Len(getBestMethodsForDomain(Store, "x.com", BestMinAttempts)) = 2
  /\ ~healthStatus["B"].healthy
  /\ ~config["D"].enabled
  /\ selected = getMethodsForDomain("x.com")
  /\ selected = <<"C", "A">>

\* C35: every registered method's priority is in 1..10 after any sequence of
\* registry operations: setMethodPriority leaves it alone for a value outside
\* the range, and no other operation takes it outside.
C35_PriorityInRange ==
  \A i \in 1..Len(methods) :
    /\ config[methods[i]].priority >= MinPriority
    /\ config[methods[i]].priority <= MaxPriority

\* C36: a call the rate limiter rejects ends there and changes nothing: no
\* method is attempted, no attempt is recorded, the domain strategies and the
\* rate-limit counters stay as they were; no counter ever exceeds 3.
C36_RejectionChangesNothing ==
  /\ [][\A c \in CallIds :
          (calls[c].pc = "detecting" /\ calls'[c].result.error = "Rate limit exceeded") =>
            /\ calls'[c] = Return(calls[c], Failure("Rate limit exceeded"))
            /\ calls'[c].outcomes = <<>> /\ calls'[c].log = <<>>
            /\ UNCHANGED <<storeVars, domainStrategies, requestCounts, methodMetrics, passLog>>]_vars
  /\ [](\A key \in DOMAIN requestCounts : requestCounts[key] <= RateLimitMax)

\* A call has been rejected in the second minute, after attempts had been
\* recorded and a strategy learned
C36_Witness ==
  /\ calls[1].result = Failure("Rate limit exceeded")
  /\ now \div MinuteMs = 1
  /\ <<calls[1].url, 1>> \in DOMAIN requestCounts
  /\ requestCounts[<<calls[1].url, 1>>] = RateLimitMax
  /\ Len(recentAttempts) >= RateLimitMax
  /\ domainStrategies[calls[1].domain].totalAttempts >= 1

\* C37: after a checkRateLimit call made in minute bucket m, allowed or
\* rejected, the counter map holds no entry of a bucket older than m - 5, so
\* that it holds at most 6 buckets of a URL.
C37_OldBucketsPurged ==
  [][\A c \in CallIds :
       (calls[c].pc = "detecting" /\ calls'[c].pc # "detecting"
          /\ calls'[c].result.error \notin {"URL is not paywalled", "classifier error"}) =>
         /\ \A key \in DOMAIN requestCounts' :
              (now \div MinuteMs) - key[2] <= RateLimitKeepMinutes
         /\ Cardinality({key \in DOMAIN requestCounts' : key[1] = calls[c].url})
              <= RateLimitKeepMinutes + 1]_vars

\* A call of minute 6 has dropped the bucket of minute 0 and left six buckets
C37_Witness ==
  /\ calls[1].pc = "done"
  /\ calls[1].passed
  /\ now \div MinuteMs = RateLimitKeepMinutes + 1
  /\ passLog[1][2] = 0
  /\ passLog[Len(passLog)][2] = now
  /\ DOMAIN requestCounts = {<<calls[1].url, minute>> : minute \in 1..(RateLimitKeepMinutes + 1)}

\* C38: with several calls for one normalized URL in flight, the check and the
\* increment of the rate limiter are one step: every counter is the number of
\* calls that passed in its bucket, and at most 3 calls pass in a bucket,
\* whatever the interleaving.
C38_AtomicCheckAndIncrement ==
  /\ \A key \in DOMAIN requestCounts :
       /\ requestCounts[key] = PassesInBucket(key[1], key[2])
       /\ requestCounts[key] <= RateLimitMax
  /\ \A i \in 1..Len(passLog) : <<passLog[i][1], passLog[i][2] \div MinuteMs>> \in DOMAIN requestCounts

\* Two calls were in flight at once: one is still awaiting its attempt, the
\* other has been rejected as the fourth of the bucket
C38_Witness ==
  /\ calls[1].pc = "attempting"
  /\ calls[2].pc = "done"
  /\ calls[2].result = Failure("Rate limit exceeded")
  /\ calls[1].url = calls[2].url
  /\ calls[1].startTime \div MinuteMs = now \div MinuteMs
  /\ PassesInBucket(calls[1].url, now \div MinuteMs) = RateLimitMax

\* C39: what performHealthChecks reports agrees with the methods' state after
\* the checks: a method whose healthCheck returned a result is reported
\* healthy exactly when its healthStatus.healthy is true, and healthyMethods
\* is the number of such methods.
C39_ReportAgreesWithState ==
  [][\A r \in 1..MaxRuns :
       Returns(r) =>
         LET results == report'.results
             Checked(i) ==
               /\ Includes(methods', results[i].key)
               /\ generation'[results[i].key] = runs'[r].ids[results[i].key]
               /\ results[i].val.error = "" \/ results[i].val.message = "Health check error"
         IN (\A i \in 1..Len(results) : Checked(i)) =>
              /\ \A i \in 1..Len(results) :
                   results[i].val.healthy = healthStatus'[results[i].key].healthy
              /\ report'.healthyMethods =
                   Cardinality({i \in 1..Len(results) : healthStatus'[results[i].key].healthy})]_vars

\* C40: starting from empty strategies, a domain's preferredMethods never
\* holds a name twice, and holds only methods with at least one successful
\* attempt on record for the domain.
C40_PreferredHaveSucceeded ==
  \A d \in Domains :
    LET preferred == domainStrategies[d].preferredMethods
    IN /\ NoDuplicates(preferred)
       /\ \A i \in 1..Len(preferred) :
            /\ MapHas(metrics[d], preferred[i])
            /\ MapGet(metrics[d], preferred[i]).successfulAttempts >= 1

\* A, B and A again have succeeded and C has failed
C40_Witness ==
  /\ domainStrategies["x.com"].preferredMethods = <<"A", "B">>
  /\ domainStrategies["x.com"].successfulAttempts = 3
  /\ domainStrategies["x.com"].totalAttempts = 4
  /\ MapHas(metrics["x.com"], "C")
  /\ MapGet(metrics["x.com"], "A").successfulAttempts = 2

====
